---- MODULE Spec2Model ----
(***************************************************************************)
(* The peer-connection layer of the node (src/network/peer.go): the        *)
(* handshake, Send and its admission rule, the writer and reader tasks,    *)
(* Close, and the registry updates of tryMarkConnected.  Every handler is  *)
(* split at its accesses to shared state (atomics, locks, channels, the    *)
(* registry), so that the interleavings of the tasks of one or two Peers   *)
(* are explored step by step.                                              *)
(***************************************************************************)
EXTENDS Integers, Sequences, FiniteSets, TLC

VARIABLES
    \* configuration fixed at construction
    live,               \* the Peers that were constructed
    liveCallers,        \* the outside tasks that call Send
    id,                 \* peer.id
    remote,             \* the messages the other side of a connection may send
    sendQueueSize,      \* capacity of the sender channel of a Peer
    \* peer fields
    stPc,               \* position of Start / processVersionNak for the Peer
    gotVersion, gotPeerList, connected, closed,
    versionStruct,      \* peer.versionStruct holds a parsed version
    ip,                 \* peer.ip is known (not the zero IPDesc)
    incomingSessionID,  \* peer.incomingSessionID
    pendingBytes,       \* peer.pendingBytes
    senderLock,         \* holder of peer.senderLock
    sender,             \* peer.sender: the frames queued, as their byte lengths
    closePc,            \* sync.Once of Close and the position inside close()
    tickerCloses, connCloses, senderCloses, disconnectedCalls,
    connectedCalls,     \* calls of the Network connected hook for the Peer
    \* network fields
    peers,              \* network.peers: id -> Peer
    nextSessionID,      \* network.nextSessionID: id -> uint32
    netPendingBytes,    \* network.pendingBytes
    stateLock,          \* network.stateLock: free, write-held by a task, or read-held
    \* tasks
    wpc, wmsg,          \* writer task: position, frame in hand
    hpc,                \* position of the reader task, of the goroutine handling the
                        \* first message and of the goroutine Start spawns to send
    hmsg,               \* the message the task is handling
    hold,               \* oldConnection of tryMarkConnected
    sf,                 \* one Send call frame per task
    crashed,            \* a panic or fatal runtime error ended the process
    \* observation
    wire,               \* the frames of the Sends that returned true and the frames
                        \* written to the connection, per Peer, when they are logged
    rd,                 \* the reader's view of the byte stream of one connection: the
                        \* bytes still to arrive, pendingBuffer, the messages dispatched
    sentNak,            \* per Peer, the errorNo processVersionNak handed to versionNack
    hs,                 \* the two ends of one connection between two nodes during
                        \* Start: position, messages in flight, own VersionNak code
    codec,              \* one message on its way through the Builder and the Parser
    avmTx,              \* one avm Tx during Accept: t.status, the status in the
                        \* database, the writes not committed, the position
    vtxJob              \* one vertexJob during Execute: its parents, transactions,
                        \* the txManager's view of them, the vertex status

confVars == <<live, liveCallers, id, remote, sendQueueSize>>
peerVars == <<stPc, gotVersion, gotPeerList, connected, connectedCalls, versionStruct, ip,
              incomingSessionID>>
closeVars == <<closed, closePc, tickerCloses, connCloses, senderCloses, disconnectedCalls>>
queueVars == <<pendingBytes, sender, netPendingBytes>>
netVars == <<peers, nextSessionID, stateLock>>
writerVars == <<wpc, wmsg>>
taskVars == <<hpc, hmsg, hold>>
auxVars == <<wire, rd, sentNak, hs, codec, avmTx, vtxJob>>
vars == <<confVars, peerVars, closeVars, queueVars, senderLock, netVars, writerVars, taskVars,
          sf, crashed, auxVars>>

(***************************** bounds and sets *****************************)
\* largest capacity of a sender channel (set where the Peer is constructed)
SendQueueSize == 2
\* longest message handed to Send, in bytes
MaxMsgLen == 2
\* network.maxMessageSize, scaled down
maxMessageSize == 2
\* network.networkPendingSendBytesToRateLimit, scaled down
networkPendingSendBytesToRateLimit == 4
\* network.maxNetworkPendingSendBytes, scaled down
maxNetworkPendingSendBytes == 120
\* the share of maxNetworkPendingSendBytes one connection may use is 1/20
ConnShare == 20

\* session ids are uint32; the model counts modulo SessionMod
SessionMod == 4
\* |peerTime - myTime| of a Version is 0 or ClockSkew seconds
ClockSkew == 120
MaxClockDifference == 60

Peers == {1, 2}
NoPeer == 0
MyID == "self"
IDs == {"self", "n1", "n2"}
MsgLens == 1..MaxMsgLen
SessionIDs == 0..(SessionMod - 1)
\* the beacons of the network
Beacons == {"n2"}

NoTask == <<"none", 0>>
Callers == {<<"caller", 1>>, <<"caller", 2>>}
ReaderTask(p) == <<"reader", p>>
FirstTask(p) == <<"first", p>>
SpawnTask(p) == <<"spawn", p>>
CloseTask(p) == <<"close", p>>
StartTask(p) == <<"start", p>>
PingTask(p) == <<"ping", p>>
FinishTask(p) == <<"finish", p>>
PeerTasks == {ReaderTask(p) : p \in Peers} \cup {FirstTask(p) : p \in Peers}
                 \cup {SpawnTask(p) : p \in Peers} \cup {PingTask(p) : p \in Peers}
                 \cup {FinishTask(p) : p \in Peers}
Tasks == Callers \cup PeerTasks
PeerOf(t) == t[2]

IdleFrame == [pc |-> "idle", to |-> NoPeer, len |-> 0,
              newPendingBytes |-> 0, newConnPendingBytes |-> 0, ret |-> "none"]

\* length in bytes of the frames the Peer builds itself (all alike here)
CtlLen == 1

\* the inbound messages: the fields the handlers read
NoMsg == [op |-> "none"]
VersionMsgs == [op : {"Version"}, networkID : {"ours", "other"}, nodeID : {"ours", "other"},
                skew : {0, ClockSkew}, versionStr : {"junk", "incompatible", "legacy", "modern"},
                sessionID : SessionIDs]
PeerListMsgs == [op : {"PeerList"}, ips : 0..1]
\* the ops handed to the Router
ConsensusOps == {"GetAcceptedFrontier", "AcceptedFrontier", "GetAccepted", "Accepted", "Get",
                 "GetAncestors", "Put", "MultiPut", "PushQuery", "PullQuery", "Chits"}
ConsensusMsgs == [op : ConsensusOps]

RECURSIVE SumSeq(_)
SumSeq(s) == IF s = <<>> THEN 0 ELSE Head(s) + SumSeq(Tail(s))

(******************************** framing **********************************)
\* wrappers.IntLen: the bytes of a frame's length prefix
IntLen == 4
\* the values of a byte
ByteMod == 256

RECURSIVE PackInt(_, _)
\* the big-endian bytes of v in n bytes
PackInt(v, n) == IF n = 0 THEN <<>> ELSE Append(PackInt(v \div ByteMod, n - 1), v % ByteMod)

RECURSIVE UnpackInt(_)
\* the value of big-endian bytes
UnpackInt(b) == IF b = <<>> THEN 0
                ELSE UnpackInt(SubSeq(b, 1, Len(b) - 1)) * ByteMod + b[Len(b)]

\* a frame on the wire: the length prefix and the payload
Frame(payload) == PackInt(Len(payload), IntLen) \o payload

RECURSIVE Stream(_)
\* the concatenation of the frames
Stream(frames) == IF frames = <<>> THEN <<>> ELSE Frame(Head(frames)) \o Stream(Tail(frames))

\* pendingBuffer.UnpackBytes() at Offset 0: UnpackInt, then UnpackFixedBytes of
\* that size; either fails when the buffer has too few bytes left
UnpackBytes(bytes) ==
    IF Len(bytes) < IntLen THEN [err |-> TRUE, msg |-> <<>>, offset |-> 0]
    ELSE LET size == UnpackInt(SubSeq(bytes, 1, IntLen)) IN
         IF Len(bytes) - IntLen < size THEN [err |-> TRUE, msg |-> <<>>, offset |-> IntLen]
         ELSE [err |-> FALSE, msg |-> SubSeq(bytes, IntLen + 1, IntLen + size),
               offset |-> IntLen + size]

(************************** Builder and Parser *****************************)
(* A message is an op and the values of its fields in the order of the     *)
(* op's table. Build packs the op and the fields into the payload of a     *)
(* frame; Parse reads the op and, by its table, the fields.                *)
\* bytes of a string's length and of a port; bytes of a uint64
ShortLen == 2
LongLen == 8
\* bytes of a chain or container id and of an IP address, scaled down
IDLen == 2
IPLen == 2
\* longest list, string and byte array of a message
MaxList == 2

\* the ops in the order of their codes
OpList == <<"GetVersion", "Version", "GetPeerList", "PeerList", "Ping", "Pong",
            "GetAcceptedFrontier", "AcceptedFrontier", "GetAccepted", "Accepted", "Get",
            "GetAncestors", "Put", "MultiPut", "PushQuery", "PullQuery", "Chits",
            "VersionNak">>
OpCode(op) == CHOOSE i \in 1..Len(OpList) : OpList[i] = op

\* the fields of each op, with their types
Schema(op) ==
    CASE op = "Version" ->
             <<<<"NetworkID", "u32">>, <<"NodeID", "u32">>, <<"SessionID", "u32">>,
               <<"MyTime", "u64">>, <<"IP", "ip">>, <<"VersionStr", "str">>>>
      [] op = "VersionNak" -> <<<<"ErrorNo", "u32">>, <<"Peers", "ips">>>>
      [] op = "PeerList" -> <<<<"Peers", "ips">>>>
      [] op = "GetAcceptedFrontier" ->
             <<<<"ChainID", "id">>, <<"RequestID", "u32">>, <<"Deadline", "u64">>>>
      [] op \in {"AcceptedFrontier", "Accepted", "Chits"} ->
             <<<<"ChainID", "id">>, <<"RequestID", "u32">>, <<"ContainerIDs", "ids">>>>
      [] op = "GetAccepted" ->
             <<<<"ChainID", "id">>, <<"RequestID", "u32">>, <<"Deadline", "u64">>,
               <<"ContainerIDs", "ids">>>>
      [] op \in {"Get", "GetAncestors", "PullQuery"} ->
             <<<<"ChainID", "id">>, <<"RequestID", "u32">>, <<"Deadline", "u64">>,
               <<"ContainerID", "id">>>>
      [] op = "Put" ->
             <<<<"ChainID", "id">>, <<"RequestID", "u32">>, <<"ContainerID", "id">>,
               <<"ContainerBytes", "bytes">>>>
      [] op = "MultiPut" ->
             <<<<"ChainID", "id">>, <<"RequestID", "u32">>, <<"MultiContainerBytes", "blobs">>>>
      [] op = "PushQuery" ->
             <<<<"ChainID", "id">>, <<"RequestID", "u32">>, <<"Deadline", "u64">>,
               <<"ContainerID", "id">>, <<"ContainerBytes", "bytes">>>>
      [] OTHER -> <<>>

\* the type of the elements of a list
ElemOf(ty) == CASE ty = "ips" -> "ip" [] ty = "ids" -> "id" [] ty = "blobs" -> "bytes"

RECURSIVE Enc(_, _), EncAll(_, _)
\* the bytes of a value of type ty
Enc(ty, v) ==
    CASE ty = "u32" -> PackInt(v, IntLen)
      [] ty = "u64" -> PackInt(v, LongLen)
      [] ty = "str" -> PackInt(Len(v), ShortLen) \o v
      [] ty = "bytes" -> PackInt(Len(v), IntLen) \o v
      [] ty = "id" -> v
      [] ty = "ip" -> v.ip \o PackInt(v.port, ShortLen)
      [] OTHER -> PackInt(Len(v), IntLen) \o EncAll(ElemOf(ty), v)
EncAll(ty, vs) == IF vs = <<>> THEN <<>> ELSE Enc(ty, Head(vs)) \o EncAll(ty, Tail(vs))

RECURSIVE EncFields(_, _)
EncFields(schema, fields) ==
    IF schema = <<>> THEN <<>>
    ELSE Enc(Head(schema)[2], Head(fields)) \o EncFields(Tail(schema), Tail(fields))

\* Builder: the payload of the message
Build(m) == <<OpCode(m.op)>> \o EncFields(Schema(m.op), m.fields)

\* what unpacking yields: an error, or a value and the bytes after it
Unpacked(v, rest) == [err |-> FALSE, val |-> v, rest |-> rest]
UnpackError == [err |-> TRUE, val |-> <<>>, rest |-> <<>>]

\* the next n bytes
Take(b, n) == IF Len(b) < n THEN UnpackError ELSE Unpacked(SubSeq(b, 1, n), SubSeq(b, n + 1, Len(b)))

\* the next n bytes as an integer
TakeInt(b, n) == LET r == Take(b, n) IN IF r.err THEN r ELSE Unpacked(UnpackInt(r.val), r.rest)

\* the elements of a list come out in the reverse of their order on the wire
Listed(acc, v) == <<v>> \o acc

\* a list and the element unpacked after it
ListedInOrder(acc, v) == Append(acc, v)

RECURSIVE Dec(_, _), DecAll(_, _, _, _)
\* the value of type ty at the head of b
Dec(ty, b) ==
    CASE ty = "u32" -> TakeInt(b, IntLen)
      [] ty = "u64" -> TakeInt(b, LongLen)
      [] ty = "str" -> LET n == TakeInt(b, ShortLen) IN IF n.err THEN n ELSE Take(n.rest, n.val)
      [] ty = "bytes" -> LET n == TakeInt(b, IntLen) IN IF n.err THEN n ELSE Take(n.rest, n.val)
      [] ty = "id" -> Take(b, IDLen)
      [] ty = "ip" -> LET a == Take(b, IPLen) IN
                      IF a.err THEN a
                      ELSE LET q == TakeInt(a.rest, ShortLen) IN
                           IF q.err THEN q
                           ELSE Unpacked([ip |-> a.val, port |-> q.val], q.rest)
      [] OTHER -> LET n == TakeInt(b, IntLen) IN
                  IF n.err THEN n ELSE DecAll(ElemOf(ty), n.val, n.rest, <<>>)
\* n values of type ty after the values acc
DecAll(ty, n, b, acc) ==
    IF n = 0 THEN Unpacked(acc, b)
    ELSE LET r == Dec(ty, b) IN
         IF r.err THEN r ELSE DecAll(ty, n - 1, r.rest, ListedInOrder(acc, r.val))

RECURSIVE DecFields(_, _, _)
DecFields(schema, b, acc) ==
    IF schema = <<>> THEN Unpacked(acc, b)
    ELSE LET r == Dec(Head(schema)[2], b) IN
         IF r.err THEN r ELSE DecFields(Tail(schema), r.rest, Append(acc, r.val))

\* Parser: the message of a payload; an unknown op, missing bytes and bytes
\* left over are errors
Parse(b) ==
    IF b = <<>> \/ b[1] \notin 1..Len(OpList) THEN [err |-> TRUE, op |-> "none", fields |-> <<>>]
    ELSE LET op == OpList[b[1]]
             r == DecFields(Schema(op), Tail(b), <<>>)
         IN  IF r.err \/ r.rest # <<>> THEN [err |-> TRUE, op |-> op, fields |-> <<>>]
             ELSE [err |-> FALSE, op |-> op, fields |-> r.val]

\* no message is on its way
NoCodec == [pc |-> "off", msg |-> <<>>, bytes |-> <<>>, parsed |-> <<>>]

\* msg, err := p.net.b.<Op>(fields...)
BuildMsg ==
    /\ codec.pc = "msg"
    /\ codec' = [codec EXCEPT !.pc = "built", !.bytes = Build(codec.msg)]
    /\ UNCHANGED <<confVars, wire, rd, sentNak, hs, avmTx, vtxJob, peerVars, closeVars, queueVars, senderLock,
                   netVars, writerVars, taskVars, sf, crashed>>

\* parsedMsg, err := p.net.b.Parse(msg.Bytes())
ParseBytes ==
    /\ codec.pc = "built"
    /\ codec' = [codec EXCEPT !.pc = "parsed", !.parsed = Parse(codec.bytes)]
    /\ UNCHANGED <<confVars, wire, rd, sentNak, hs, avmTx, vtxJob, peerVars, closeVars, queueVars, senderLock,
                   netVars, writerVars, taskVars, sf, crashed>>

(******************************* avm Tx ***********************************)
\* choices.Status
Statuses == {"Unknown", "Processing", "Rejected", "Accepted"}

\* no Tx is being accepted
NoTx == [pc |-> "off", status |-> "Unknown", stored |-> "none", pending |-> {},
         inputs |-> 0, utxos |-> 0, before |-> "Unknown", ret |-> "none"]

\* Tx.Status: t.status unless it is Unknown, then the status of the database
\* (Unknown when the database has none)
TxStatus(x) ==
    IF x.status # "Unknown" THEN x.status
    ELSE IF x.stored = "none" THEN "Unknown" ELSE x.stored

\* a return of Accept with an error: the deferred t.vm.db.Abort() drops the
\* writes that were not committed
AcceptFails(err) ==
    /\ avmTx' = [avmTx EXCEPT !.pc = "returned", !.ret = err, !.pending = {}]
    /\ UNCHANGED <<confVars, wire, rd, sentNak, hs, codec, vtxJob, peerVars, closeVars, queueVars,
                   senderLock, netVars, writerVars, taskVars, sf, crashed>>

\* the next step of Accept, with the fields of t it assigns
AcceptGoes(x) ==
    /\ avmTx' = x
    /\ UNCHANGED <<confVars, wire, rd, sentNak, hs, codec, vtxJob, peerVars, closeVars, queueVars,
                   senderLock, netVars, writerVars, taskVars, sf, crashed>>

\* if s := t.Status(); s != choices.Processing { return fmt.Errorf(...) }
Accept ==
    /\ avmTx.pc = "call"
    /\ IF TxStatus(avmTx) # "Processing"
       THEN AcceptGoes([avmTx EXCEPT !.pc = "returned", !.ret = "invalid status"])
       ELSE AcceptGoes([avmTx EXCEPT !.pc = "body"])

\* for _, utxo := range t.InputUTXOs(): a symbolic UTXO is skipped,
\* SpendUTXO succeeds or returns an error
AcceptSpendUTXO ==
    /\ avmTx.pc = "body" /\ avmTx.inputs > 0
    /\ \/ AcceptGoes([avmTx EXCEPT !.inputs = @ - 1])
       \/ AcceptGoes([avmTx EXCEPT !.inputs = @ - 1, !.pending = @ \cup {"utxos"}])
       \/ AcceptFails("SpendUTXO")

\* for _, utxo := range t.UTXOs(): FundUTXO succeeds or returns an error
AcceptFundUTXO ==
    /\ avmTx.pc = "body" /\ avmTx.inputs = 0 /\ avmTx.utxos > 0
    /\ \/ AcceptGoes([avmTx EXCEPT !.utxos = @ - 1, !.pending = @ \cup {"utxos"}])
       \/ AcceptFails("FundUTXO")

\* t.setStatus(status): nothing when t.status is the status already; else
\* t.status = status, then the write t.vm.state.SetStatus, which may fail
setStatus(status) ==
    IF avmTx.status = status THEN AcceptGoes([avmTx EXCEPT !.pc = "commit"])
    ELSE \/ AcceptGoes([avmTx EXCEPT !.pc = "commit", !.status = status,
                                     !.pending = @ \cup {"status"}])
         \/ AcceptGoes([avmTx EXCEPT !.pc = "returned", !.status = status,
                                     !.ret = "SetStatus", !.pending = {}])

\* if err := t.setStatus(choices.Accepted); err != nil { return err }
AcceptSetStatus ==
    /\ avmTx.pc = "body" /\ avmTx.inputs = 0 /\ avmTx.utxos = 0
    /\ setStatus("Accepted")

\* commitBatch, err := t.vm.db.CommitBatch()
AcceptCommitBatch ==
    /\ avmTx.pc = "commit"
    /\ \/ AcceptGoes([avmTx EXCEPT !.pc = "execute"])
       \/ AcceptFails("CommitBatch")

\* t.ExecuteWithSideEffects(t.vm, commitBatch) writes the batch, or fails;
\* then Publish, t.deps = nil, return nil
AcceptExecute ==
    /\ avmTx.pc = "execute"
    /\ \/ AcceptGoes([avmTx EXCEPT !.pc = "returned", !.ret = "nil", !.pending = {},
                                    !.stored = IF "status" \in avmTx.pending THEN avmTx.status ELSE @])
       \/ AcceptFails("ExecuteWithSideEffects")

(****************************** vertexJob *********************************)
\* no vertexJob is being executed
NoJob == [pc |-> "off", parents |-> <<>>, txs |-> <<>>, status |-> "Unknown", before |-> "Unknown",
          i |-> 0, ret |-> "none", accepted |-> FALSE, saved |-> FALSE,
          numDropped |-> 0, numAccepted |-> 0]

\* txManager.GetTx: the status of the transaction it returns, looking at the
\* pinned transactions, then the cache, then the storage of the VM; "none"
\* when the VM returns an error
GetTx(l) ==
    IF l.pinned # "none" THEN l.pinned
    ELSE IF l.cached # "none" THEN l.cached
    ELSE l.stored

\* MissingDependencies: the parents GetVertex does not find or that are not
\* Accepted
MissingDependencies(j) == {k \in 1..Len(j.parents) : j.parents[k] # "Accepted"}

\* the next step of Execute
ExecuteGoes(j) ==
    /\ vtxJob' = j
    /\ UNCHANGED <<confVars, wire, rd, sentNak, hs, codec, avmTx, peerVars, closeVars, queueVars,
                   senderLock, netVars, writerVars, taskVars, sf, crashed>>

\* a return of Execute
ExecuteReturns(r, dropped) ==
    ExecuteGoes([vtxJob EXCEPT !.pc = "returned", !.ret = r, !.numDropped = @ + dropped])

\* deps, err := v.MissingDependencies(): vtx.Parents() may fail; a missing
\* dependency is counted and returned as an error
Execute ==
    /\ vtxJob.pc = "call"
    /\ \/ ExecuteReturns("Parents", 0)
       \/ IF MissingDependencies(vtxJob) # {}
          THEN ExecuteReturns("blocked", 1)
          ELSE ExecuteGoes([vtxJob EXCEPT !.pc = "txs"])

\* txs, err := v.vtx.Txs()
ExecuteTxs ==
    /\ vtxJob.pc = "txs"
    /\ \/ ExecuteReturns("Txs", 0)
       \/ ExecuteGoes([vtxJob EXCEPT !.pc = IF vtxJob.txs = <<>> THEN "status" ELSE "loop", !.i = 1])

\* one round of the loop over the transactions, for the status of the
\* transaction GetTx gave
ExecuteTxStatus(status) ==
    IF status # "Accepted" THEN ExecuteReturns("nil", 1)
    ELSE ExecuteGoes([vtxJob EXCEPT !.i = @ + 1,
                                    !.pc = IF vtxJob.i = Len(vtxJob.txs) THEN "status" ELSE "loop"])

\* tx, err := v.GetTx(tx.ID()); if err != nil { v.log.Warn(..., tx.ID()) }:
\* with the error GetTx returns no transaction, and tx.ID() is a call on a nil
\* interface, or a transaction of Unknown status
ExecuteGetTx ==
    /\ vtxJob.pc = "loop"
    /\ LET status == GetTx(vtxJob.txs[vtxJob.i]) IN
       IF status = "none"
       THEN \/ ExecuteReturns("panic", 0)
            \/ ExecuteTxStatus("Unknown")
       ELSE ExecuteTxStatus(status)

\* switch v.vtx.Status()
ExecuteStatus ==
    /\ vtxJob.pc = "status"
    /\ IF vtxJob.status \in {"Unknown", "Rejected"} THEN ExecuteReturns("status", 1)
       ELSE IF vtxJob.status = "Processing"
       THEN ExecuteGoes([vtxJob EXCEPT !.pc = "accept", !.numAccepted = @ + 1])
       ELSE ExecuteReturns("nil", 0)

\* if err := v.vtx.Accept(); err != nil { return ... }
ExecuteAccept ==
    /\ vtxJob.pc = "accept"
    /\ \/ ExecuteReturns("Accept", 0)
       \/ ExecuteGoes([vtxJob EXCEPT !.pc = "save", !.status = "Accepted", !.accepted = TRUE])

\* else if err := v.mgr.SaveVertex(v.vtx); err != nil { return ... }; return nil
ExecuteSaveVertex ==
    /\ vtxJob.pc = "save"
    /\ \/ ExecuteReturns("SaveVertex", 0)
       \/ ExecuteGoes([vtxJob EXCEPT !.pc = "returned", !.ret = "nil", !.saved = TRUE])

(********************************* Init ************************************)
\* no connection between two modelled nodes
NoPair == [nodeID |-> <<>>, peered |-> <<>>, ver |-> <<>>, pc |-> <<>>, inbox |-> <<>>,
           nak |-> <<>>]

\* the state after construction of the Peers ps with ids idOf, with the
\* outside Send callers cs, facing nodes that send the messages msgs; the
\* sender channels hold cap frames
InitState(ps, cs, idOf, msgs, cap, logged, frames, pair) ==
    /\ live = ps
    /\ liveCallers = cs
    /\ id = idOf
    /\ remote = msgs
    /\ sendQueueSize = cap
    /\ stPc = [p \in Peers |-> "new"]
    /\ gotVersion = [p \in Peers |-> FALSE]
    /\ gotPeerList = [p \in Peers |-> FALSE]
    /\ connected = [p \in Peers |-> FALSE]
    /\ closed = [p \in Peers |-> FALSE]
    /\ versionStruct = [p \in Peers |-> FALSE]
    /\ ip = [p \in Peers |-> FALSE]
    /\ incomingSessionID = [p \in Peers |-> 0]
    /\ pendingBytes = [p \in Peers |-> 0]
    /\ senderLock = [p \in Peers |-> NoTask]
    /\ sender = [p \in Peers |-> <<>>]
    /\ closePc = [p \in Peers |-> "idle"]
    /\ tickerCloses = [p \in Peers |-> 0]
    /\ connCloses = [p \in Peers |-> 0]
    /\ senderCloses = [p \in Peers |-> 0]
    /\ disconnectedCalls = [p \in Peers |-> 0]
    /\ connectedCalls = [p \in Peers |-> 0]
    /\ peers = [i \in IDs |-> NoPeer]
    /\ nextSessionID = [i \in IDs |-> 0]
    /\ netPendingBytes = 0
    /\ stateLock = NoTask
    /\ wpc = [p \in Peers |-> "w_off"]
    /\ wmsg = [p \in Peers |-> 0]
    /\ hpc = [t \in PeerTasks |-> "off"]
    /\ hmsg = [t \in PeerTasks |-> NoMsg]
    /\ hold = [t \in PeerTasks |-> NoPeer]
    /\ sf = [t \in Tasks |-> IdleFrame]
    /\ crashed = "no"
    /\ wire = [on |-> logged, sent |-> [p \in Peers |-> <<>>], written |-> [p \in Peers |-> <<>>]]
    /\ rd = [frames |-> frames, stream |-> Stream(frames), buf |-> <<>>, out |-> <<>>,
             pc |-> IF frames = <<>> THEN "off" ELSE "read"]
    /\ sentNak = [p \in Peers |-> "none"]
    /\ hs = pair

InitAll(ps, cs, idOf, msgs, cap, logged, frames, pair) ==
    /\ InitState(ps, cs, idOf, msgs, cap, logged, frames, pair)
    /\ codec = NoCodec
    /\ avmTx = NoTx
    /\ vtxJob = NoJob

InitWith(ps, cs, idOf, msgs, cap) == InitAll(ps, cs, idOf, msgs, cap, FALSE, <<>>, NoPair)

(************************** network.stateLock ******************************)
\* sync.RWMutex. Lock waits until the mutex is free; RLock waits until no
\* writer holds it; Unlock of a mutex that is not write-locked (free, or held
\* for reading only) is a fatal runtime error; Unlock may be called by a task
\* other than the one that locked.
StateLockFree == stateLock = NoTask
StateLockReadable == stateLock = NoTask \/ stateLock[1] = "rlocked"
StateRLocked == IF stateLock = NoTask THEN <<"rlocked", 1>> ELSE <<"rlocked", stateLock[2] + 1>>
StateUnlockFatal == stateLock = NoTask \/ stateLock[1] = "rlocked"
StateUnlocked == IF StateUnlockFatal THEN stateLock ELSE NoTask
CrashedByUnlock == IF StateUnlockFatal THEN "unlock of unlocked stateLock" ELSE crashed

(********************************* Close ***********************************)
\* variant of OnceFresh: a Once that runs close() again after it has finished
OnceAgain(p) == closePc[p] \in {"idle", "done"}

\* sync.Once: only the first Close runs close()
OnceFresh(p) == closePc[p] = "idle"

\* peer.Close: once.Do(p.close). The first caller starts close(); every
\* caller (first or not) returns only when close() has finished (CloseReturned).
CloseCalled(p) == IF OnceFresh(p) THEN [closePc EXCEPT ![p] = "c_ticker"] ELSE closePc
CloseReturned(p) == closePc[p] = "done"

\* a close() that leaves tickerCloser open
closeTickerCloserSkipped(p) ==
    /\ crashed = "no" /\ closePc[p] = "c_ticker"
    /\ closePc' = [closePc EXCEPT ![p] = "c_closed"]
    /\ UNCHANGED <<confVars, auxVars, peerVars, closed, tickerCloses, connCloses, senderCloses,
                   disconnectedCalls, queueVars, senderLock, netVars, writerVars, taskVars, sf,
                   crashed>>

\* close(p.tickerCloser)
closeTickerCloser(p) ==
    /\ crashed = "no" /\ closePc[p] = "c_ticker"
    /\ tickerCloses' = [tickerCloses EXCEPT ![p] = @ + 1]
    /\ closePc' = [closePc EXCEPT ![p] = "c_closed"]
    /\ UNCHANGED <<confVars, auxVars, peerVars, closed, connCloses, senderCloses, disconnectedCalls,
                   queueVars, senderLock, netVars, writerVars, taskVars, sf, crashed>>

\* p.closed.SetValue(true)
closeSetClosed(p) ==
    /\ crashed = "no" /\ closePc[p] = "c_closed"
    /\ closed' = [closed EXCEPT ![p] = TRUE]
    /\ closePc' = [closePc EXCEPT ![p] = "c_conn"]
    /\ UNCHANGED <<confVars, auxVars, peerVars, tickerCloses, connCloses, senderCloses, disconnectedCalls,
                   queueVars, senderLock, netVars, writerVars, taskVars, sf, crashed>>

\* variant of closeConn: close() goes on without closing the connection
closeConnSkipped(p) ==
    /\ crashed = "no" /\ closePc[p] = "c_conn"
    /\ closePc' = [closePc EXCEPT ![p] = "c_lock"]
    /\ UNCHANGED <<confVars, auxVars, peerVars, closed, tickerCloses, connCloses, senderCloses,
                   disconnectedCalls, queueVars, senderLock, netVars, writerVars, taskVars, sf,
                   crashed>>

\* p.conn.Close()
closeConn(p) ==
    /\ crashed = "no" /\ closePc[p] = "c_conn"
    /\ connCloses' = [connCloses EXCEPT ![p] = @ + 1]
    /\ closePc' = [closePc EXCEPT ![p] = "c_lock"]
    /\ UNCHANGED <<confVars, auxVars, peerVars, closed, tickerCloses, senderCloses, disconnectedCalls,
                   queueVars, senderLock, netVars, writerVars, taskVars, sf, crashed>>

\* variant of closeLockFree: close() does not wait for senderLock
closeLockIgnored(p) == TRUE

\* p.senderLock.Lock() of close(): waits until the lock is free
closeLockFree(p) == senderLock[p] = NoTask

closeSenderLock(p) ==
    /\ crashed = "no" /\ closePc[p] = "c_lock"
    /\ closeLockFree(p)
    /\ senderLock' = [senderLock EXCEPT ![p] = CloseTask(p)]
    /\ closePc' = [closePc EXCEPT ![p] = "c_sender"]
    /\ UNCHANGED <<confVars, auxVars, peerVars, closed, tickerCloses, connCloses, senderCloses,
                   disconnectedCalls, queueVars, netVars, writerVars, taskVars, sf, crashed>>

\* close(p.sender); closing a closed channel panics
closeSender(p) ==
    /\ crashed = "no" /\ closePc[p] = "c_sender"
    /\ senderCloses' = [senderCloses EXCEPT ![p] = @ + 1]
    /\ crashed' = IF senderCloses[p] > 0 THEN "close of closed channel" ELSE crashed
    /\ closePc' = [closePc EXCEPT ![p] = "c_unlock"]
    /\ UNCHANGED <<confVars, auxVars, peerVars, closed, tickerCloses, connCloses, disconnectedCalls,
                   queueVars, senderLock, netVars, writerVars, taskVars, sf>>

\* variant of closeSenderUnlock: close() keeps senderLock over the hook
closeSenderUnlockSkipped(p) ==
    /\ crashed = "no" /\ closePc[p] = "c_unlock"
    /\ closePc' = [closePc EXCEPT ![p] = "c_disc"]
    /\ UNCHANGED <<confVars, auxVars, peerVars, closed, tickerCloses, connCloses, senderCloses,
                   disconnectedCalls, queueVars, senderLock, netVars, writerVars, taskVars, sf, crashed>>

\* p.senderLock.Unlock() of close()
closeSenderUnlock(p) ==
    /\ crashed = "no" /\ closePc[p] = "c_unlock"
    /\ senderLock' = [senderLock EXCEPT ![p] = NoTask]
    /\ closePc' = [closePc EXCEPT ![p] = "c_disc"]
    /\ UNCHANGED <<confVars, auxVars, peerVars, closed, tickerCloses, connCloses, senderCloses,
                   disconnectedCalls, queueVars, netVars, writerVars, taskVars, sf, crashed>>

\* p.net.disconnected(p): the hook takes stateLock itself ...
disconnectedLock(p) ==
    /\ crashed = "no" /\ closePc[p] = "c_disc"
    /\ StateLockFree
    /\ stateLock' = CloseTask(p)
    /\ closePc' = [closePc EXCEPT ![p] = "c_discBody"]
    /\ UNCHANGED <<confVars, auxVars, peerVars, closed, tickerCloses, connCloses, senderCloses,
                   disconnectedCalls, queueVars, senderLock, peers, nextSessionID, writerVars, taskVars, sf, crashed>>

\* ... removes the Peer from the registry and releases stateLock. Releasing a
\* mutex that is not locked is a fatal runtime error.
disconnected(p) ==
    /\ crashed = "no" /\ closePc[p] = "c_discBody"
    /\ peers' = IF peers[id[p]] = p THEN [peers EXCEPT ![id[p]] = NoPeer] ELSE peers
    /\ disconnectedCalls' = [disconnectedCalls EXCEPT ![p] = @ + 1]
    /\ stateLock' = StateUnlocked
    /\ crashed' = CrashedByUnlock
    /\ closePc' = [closePc EXCEPT ![p] = "done"]
    /\ UNCHANGED <<confVars, auxVars, peerVars, closed, tickerCloses, connCloses, senderCloses,
                   queueVars, senderLock, nextSessionID, writerVars, taskVars, sf>>

close(p) ==
    \/ closeTickerCloser(p) \/ closeSetClosed(p) \/ closeConn(p)
    \/ closeSenderLock(p) \/ closeSender(p) \/ closeSenderUnlock(p)
    \/ disconnectedLock(p) \/ disconnected(p)

(********************************** Send ***********************************)
\* variant of dropMessagePeer: the bytes of the Peer are not looked at
dropMessagePeerNever(p) == FALSE

\* return atomic.LoadInt64(&p.pendingBytes) > p.net.maxMessageSize
dropMessagePeer(p) == pendingBytes[p] > maxMessageSize

dropMessage(p, connPendingLen, networkPendingLen) ==
    /\ networkPendingLen > networkPendingSendBytesToRateLimit
    /\ dropMessagePeer(p)
    /\ \/ networkPendingLen > maxNetworkPendingSendBytes
       \/ connPendingLen > maxNetworkPendingSendBytes \div ConnShare

\* the log with frame n added to what was sent to, or written by, Peer p
Logged(what, p, n) ==
    IF wire.on THEN [wire EXCEPT ![what][p] = Append(@, n)] ELSE wire

\* Send returns r: the deferred senderLock.Unlock() runs
SendReturn(t, r) ==
    /\ senderLock' = [senderLock EXCEPT ![sf[t].to] = NoTask]
    /\ sf' = [sf EXCEPT ![t] = [IdleFrame EXCEPT !.ret = r]]

\* a task enters Send(msg) on Peer p with len(msg.Bytes()) = n
SendCalled(t, p, n) == [sf EXCEPT ![t] = [IdleFrame EXCEPT !.pc = "s_lock", !.to = p, !.len = n]]

\* p.senderLock.Lock()
SendLock(t) ==
    /\ crashed = "no" /\ sf[t].pc = "s_lock"
    /\ senderLock[sf[t].to] = NoTask
    /\ senderLock' = [senderLock EXCEPT ![sf[t].to] = t]
    /\ sf' = [sf EXCEPT ![t].pc = "s_closed"]
    /\ UNCHANGED <<confVars, auxVars, peerVars, closeVars, queueVars, netVars, writerVars, taskVars, crashed>>

\* variant of SendSeesClosed: Send does not look at the closed flag
SendSeesOpen(p) == FALSE

\* what Send reads to decide that the Peer was closed
SendSeesClosed(p) == closed[p]

\* if p.closed.GetValue() { return false }
SendCheckClosed(t) ==
    /\ crashed = "no" /\ sf[t].pc = "s_closed"
    /\ IF SendSeesClosed(sf[t].to)
       THEN SendReturn(t, "false")
       ELSE /\ sf' = [sf EXCEPT ![t].pc = "s_dropPeer"]
            /\ UNCHANGED senderLock
    /\ UNCHANGED <<confVars, auxVars, peerVars, closeVars, queueVars, netVars, writerVars, taskVars, crashed>>

\* if dropMsg := p.dropMessagePeer(); dropMsg { return false }
SendDropMessagePeer(t) ==
    /\ crashed = "no" /\ sf[t].pc = "s_dropPeer"
    /\ IF dropMessagePeer(sf[t].to)
       THEN SendReturn(t, "false")
       ELSE /\ sf' = [sf EXCEPT ![t].pc = "s_add"]
            /\ UNCHANGED senderLock
    /\ UNCHANGED <<confVars, auxVars, peerVars, closeVars, queueVars, netVars, writerVars, taskVars, crashed>>

\* newPendingBytes := atomic.AddInt64(&p.net.pendingBytes, msgBytesLen)
SendAddNetwork(t) ==
    /\ crashed = "no" /\ sf[t].pc = "s_add"
    /\ netPendingBytes' = netPendingBytes + sf[t].len
    /\ sf' = [sf EXCEPT ![t].pc = "s_load", ![t].newPendingBytes = netPendingBytes + sf[t].len]
    /\ UNCHANGED <<confVars, auxVars, peerVars, closeVars, pendingBytes, sender, senderLock, netVars,
                   writerVars, taskVars, crashed>>

\* newConnPendingBytes := atomic.LoadInt64(&p.pendingBytes) + msgBytesLen
SendLoadConn(t) ==
    /\ crashed = "no" /\ sf[t].pc = "s_load"
    /\ sf' = [sf EXCEPT ![t].pc = "s_drop",
                        ![t].newConnPendingBytes = pendingBytes[sf[t].to] + sf[t].len]
    /\ UNCHANGED <<confVars, auxVars, peerVars, closeVars, queueVars, senderLock, netVars, writerVars,
                   taskVars, crashed>>

\* if dropMsg := p.dropMessage(newConnPendingBytes, newPendingBytes); dropMsg {...}
SendDropMessage(t) ==
    /\ crashed = "no" /\ sf[t].pc = "s_drop"
    /\ sf' = [sf EXCEPT ![t].pc =
                    IF dropMessage(sf[t].to, sf[t].newConnPendingBytes, sf[t].newPendingBytes)
                    THEN "s_revert" ELSE "s_enq",
                ![t].newPendingBytes = 0, ![t].newConnPendingBytes = 0]
    /\ UNCHANGED <<confVars, auxVars, peerVars, closeVars, queueVars, senderLock, netVars, writerVars,
                   taskVars, crashed>>

\* select { case p.sender <- msgBytes: ... default: ... }; a send on a closed
\* channel panics
SendEnqueue(t) ==
    /\ crashed = "no" /\ sf[t].pc = "s_enq"
    /\ LET p == sf[t].to IN
       IF senderCloses[p] > 0
       THEN /\ crashed' = "send on closed channel"
            /\ UNCHANGED <<sender, sf>>
       ELSE /\ UNCHANGED crashed
            /\ IF Len(sender[p]) < sendQueueSize
               THEN /\ sender' = [sender EXCEPT ![p] = Append(@, sf[t].len)]
                    /\ sf' = [sf EXCEPT ![t].pc = "s_addPeer"]
               ELSE /\ sf' = [sf EXCEPT ![t].pc = "s_revert"]
                    /\ UNCHANGED sender
    /\ UNCHANGED <<confVars, auxVars, peerVars, closeVars, pendingBytes, netPendingBytes, senderLock,
                   netVars, writerVars, taskVars>>

\* variant of SendRevert: the speculative add to the network counter stays
SendRevertKeeps(t) ==
    /\ crashed = "no" /\ sf[t].pc = "s_revert"
    /\ SendReturn(t, "false")
    /\ UNCHANGED <<confVars, auxVars, peerVars, closeVars, queueVars, netVars, writerVars, taskVars,
                   crashed>>

\* atomic.AddInt64(&p.net.pendingBytes, -msgBytesLen); return false
SendRevert(t) ==
    /\ crashed = "no" /\ sf[t].pc = "s_revert"
    /\ netPendingBytes' = netPendingBytes - sf[t].len
    /\ SendReturn(t, "false")
    /\ UNCHANGED <<confVars, auxVars, peerVars, closeVars, pendingBytes, sender, netVars, writerVars,
                   taskVars, crashed>>

\* variant of SendAddPeer: the frame is counted twice
SendAddPeerTwice(t) ==
    /\ crashed = "no" /\ sf[t].pc = "s_addPeer"
    /\ pendingBytes' = [pendingBytes EXCEPT ![sf[t].to] = @ + 2 * sf[t].len]
    /\ SendReturn(t, "true")
    /\ wire' = Logged("sent", sf[t].to, sf[t].len)
    /\ UNCHANGED <<confVars, rd, sentNak, hs, codec, avmTx, vtxJob, peerVars, closeVars, sender, netPendingBytes, netVars, writerVars,
                   taskVars, crashed>>

\* atomic.AddInt64(&p.pendingBytes, msgBytesLen); return true
SendAddPeer(t) ==
    /\ crashed = "no" /\ sf[t].pc = "s_addPeer"
    /\ pendingBytes' = [pendingBytes EXCEPT ![sf[t].to] = @ + sf[t].len]
    /\ SendReturn(t, "true")
    /\ wire' = Logged("sent", sf[t].to, sf[t].len)
    /\ UNCHANGED <<confVars, rd, sentNak, hs, codec, avmTx, vtxJob, peerVars, closeVars, sender, netPendingBytes, netVars, writerVars,
                   taskVars, crashed>>

Send(t) ==
    \/ SendLock(t) \/ SendCheckClosed(t) \/ SendDropMessagePeer(t) \/ SendAddNetwork(t)
    \/ SendLoadConn(t) \/ SendDropMessage(t) \/ SendEnqueue(t) \/ SendRevert(t)
    \/ SendAddPeer(t)

\* a task outside the Peer (consensus) calls Send on a started Peer
CallSend(t, p, n) ==
    /\ crashed = "no" /\ sf[t].pc = "idle"
    /\ t \in liveCallers /\ p \in live /\ stPc[p] = "running"
    /\ sf' = SendCalled(t, p, n)
    /\ UNCHANGED <<confVars, auxVars, peerVars, closeVars, queueVars, senderLock, netVars, writerVars,
                   taskVars, crashed>>

(***************************** WriteMessages *******************************)
\* for msg := range p.sender: takes the next frame, or leaves the loop when
\* the channel is closed and drained (the deferred p.Close() then runs)
\* a writer that takes the newest frame of the queue
WriteRangeNewest(p) ==
    /\ crashed = "no" /\ wpc[p] = "w_range"
    /\ IF sender[p] # <<>>
       THEN /\ wmsg' = [wmsg EXCEPT ![p] = sender[p][Len(sender[p])]]
            /\ sender' = [sender EXCEPT ![p] = SubSeq(@, 1, Len(@) - 1)]
            /\ wpc' = [wpc EXCEPT ![p] = "w_decPeer"]
            /\ UNCHANGED closePc
       ELSE /\ senderCloses[p] > 0
            /\ wpc' = [wpc EXCEPT ![p] = "w_close"]
            /\ closePc' = CloseCalled(p)
            /\ UNCHANGED <<wmsg, sender>>
    /\ UNCHANGED <<confVars, auxVars, peerVars, closed, tickerCloses, connCloses, senderCloses,
                   disconnectedCalls, pendingBytes, netPendingBytes, senderLock, netVars,
                   taskVars, sf, crashed>>

WriteRange(p) ==
    /\ crashed = "no" /\ wpc[p] = "w_range"
    /\ IF sender[p] # <<>>
       THEN /\ wmsg' = [wmsg EXCEPT ![p] = Head(sender[p])]
            /\ sender' = [sender EXCEPT ![p] = Tail(@)]
            /\ wpc' = [wpc EXCEPT ![p] = "w_decPeer"]
            /\ UNCHANGED closePc
       ELSE /\ senderCloses[p] > 0
            /\ wpc' = [wpc EXCEPT ![p] = "w_close"]
            /\ closePc' = CloseCalled(p)
            /\ UNCHANGED <<wmsg, sender>>
    /\ UNCHANGED <<confVars, auxVars, peerVars, closed, tickerCloses, connCloses, senderCloses,
                   disconnectedCalls, pendingBytes, netPendingBytes, senderLock, netVars,
                   taskVars, sf, crashed>>

\* atomic.AddInt64(&p.pendingBytes, -int64(len(msg)))
WriteSubPeer(p) ==
    /\ crashed = "no" /\ wpc[p] = "w_decPeer"
    /\ pendingBytes' = [pendingBytes EXCEPT ![p] = @ - wmsg[p]]
    /\ wpc' = [wpc EXCEPT ![p] = "w_decNet"]
    /\ UNCHANGED <<confVars, auxVars, peerVars, closeVars, sender, netPendingBytes, senderLock, netVars,
                   wmsg, taskVars, sf, crashed>>

\* atomic.AddInt64(&p.net.pendingBytes, -int64(len(msg)))
WriteSubNetwork(p) ==
    /\ crashed = "no" /\ wpc[p] = "w_decNet"
    /\ netPendingBytes' = netPendingBytes - wmsg[p]
    /\ wpc' = [wpc EXCEPT ![p] = "w_sendRaw"]
    /\ UNCHANGED <<confVars, auxVars, peerVars, closeVars, sender, pendingBytes, senderLock, netVars,
                   wmsg, taskVars, sf, crashed>>

\* err := p.sendRaw(msg): fails on a closed connection, may fail on an open
\* one; on an error the writer returns and the deferred p.Close() runs
WriteSendRaw(p, ok) ==
    /\ crashed = "no" /\ wpc[p] = "w_sendRaw"
    /\ connCloses[p] > 0 => ~ok
    /\ wmsg' = [wmsg EXCEPT ![p] = 0]
    /\ IF ok
       THEN /\ wpc' = [wpc EXCEPT ![p] = "w_range"]
            /\ wire' = Logged("written", p, wmsg[p])
            /\ UNCHANGED closePc
       ELSE /\ wpc' = [wpc EXCEPT ![p] = "w_close"]
            /\ closePc' = CloseCalled(p)
            /\ UNCHANGED wire
    /\ UNCHANGED <<confVars, rd, sentNak, hs, codec, avmTx, vtxJob, peerVars, closed, tickerCloses, connCloses, senderCloses,
                   disconnectedCalls, queueVars, senderLock, netVars, taskVars, sf, crashed>>

\* the deferred p.Close() returned: the writer task is gone
WriteReturn(p) ==
    /\ crashed = "no" /\ wpc[p] = "w_close"
    /\ CloseReturned(p)
    /\ wpc' = [wpc EXCEPT ![p] = "w_exit"]
    /\ UNCHANGED <<confVars, auxVars, peerVars, closeVars, queueVars, senderLock, netVars, wmsg, taskVars,
                   sf, crashed>>

WriteMessages(p) ==
    \/ WriteRange(p) \/ WriteSubPeer(p) \/ WriteSubNetwork(p)
    \/ \E ok \in BOOLEAN : WriteSendRaw(p, ok)
    \/ WriteReturn(p)

(******************************** handle ***********************************)
\* the checks of the Version handler on the fields of the message, in the
\* order of the code: the first that fails, or "ok"
VersionVerdict(m, p) ==
    IF m.networkID # "ours" THEN "networkID"
    ELSE IF m.nodeID = "ours" THEN "nodeID"
    ELSE IF m.skew > MaxClockDifference THEN "clock"
    ELSE IF m.versionStr = "junk" THEN "parse"
    ELSE IF m.versionStr = "incompatible" /\ id[p] \notin Beacons THEN "incompatible"
    ELSE "ok"

\* what a handler keeps of the message it was given
Handled(m, p) ==
    IF m.op = "Version"
    THEN [op |-> "Version", verdict |-> VersionVerdict(m, p), sessionID |-> m.sessionID, ips |-> 0]
    ELSE IF m.op \in ConsensusOps
    THEN [op |-> m.op, verdict |-> "ok", sessionID |-> 0, ips |-> 0]
    ELSE [op |-> "PeerList", verdict |-> "ok", sessionID |-> 0, ips |-> m.ips]

\* the handler returned: the reader reads on, a spawned goroutine ends
HandlerDone(t) == IF t[1] = "reader" THEN "r_read" ELSE "exit"

\* the task moves to pc; a handler that returned holds no message any more
Goto(t, pc) ==
    /\ hpc' = [hpc EXCEPT ![t] = pc]
    /\ hmsg' = [hmsg EXCEPT ![t] = IF pc \in {"r_read", "exit"} THEN NoMsg ELSE @]

\* ReadMessages: p.conn.Read fails (always on a closed connection) and the
\* deferred p.Close() runs, or a frame is parsed and handed to handle
ReadMessages(p, m) ==
    LET t == ReaderTask(p) IN
    /\ crashed = "no" /\ hpc[t] = "r_read"
    /\ connCloses[p] > 0 => m.op = "error"
    /\ IF m.op = "error"
       THEN /\ hpc' = [hpc EXCEPT ![t] = "x_close"]
            /\ closePc' = CloseCalled(p)
            /\ UNCHANGED hmsg
       ELSE /\ hpc' = [hpc EXCEPT ![t] = "h_begin"]
            /\ hmsg' = [hmsg EXCEPT ![t] = Handled(m, p)]
            /\ UNCHANGED closePc
    /\ UNCHANGED <<confVars, auxVars, peerVars, closed, tickerCloses, connCloses, senderCloses,
                   disconnectedCalls, queueVars, senderLock, netVars, writerVars, hold, sf,
                   crashed>>

\* the deferred p.Close() of ReadMessages returned
ReadReturn(p) ==
    LET t == ReaderTask(p) IN
    /\ crashed = "no" /\ hpc[t] = "x_close"
    /\ CloseReturned(p)
    /\ hpc' = [hpc EXCEPT ![t] = "exit"]
    /\ UNCHANGED <<confVars, auxVars, peerVars, closeVars, queueVars, senderLock, netVars, writerVars,
                   hmsg, hold, sf, crashed>>

(* The loop of ReadMessages over the bytes of the connection. One turn:   *)
(* conn.Read delivers the next n bytes, they are appended to               *)
(* pendingBuffer, and UnpackBytes is tried once. A buffer without a whole  *)
(* frame is kept, unless it holds more than maxMessageSize + IntLen bytes; *)
(* a whole frame is cut off the buffer and, unless its payload is longer   *)
(* than maxMessageSize, parsed and handed to p.handle, which is recorded   *)
(* in rd.out. The turn ends at the next conn.Read.                         *)
ReadFrames(p, n) ==
    LET bytes == rd.buf \o SubSeq(rd.stream, 1, n)
        u == UnpackBytes(bytes)
        tooMany == u.err /\ Len(bytes) > maxMessageSize + IntLen
        tooLong == ~u.err /\ Len(u.msg) > maxMessageSize
    IN  /\ crashed = "no" /\ rd.pc = "read"
        /\ p \in live /\ connCloses[p] = 0
        /\ n <= Len(rd.stream)
        /\ rd' = [rd EXCEPT !.stream = SubSeq(@, n + 1, Len(@)),
                            !.buf = IF u.err THEN bytes
                                    ELSE SubSeq(bytes, u.offset + 1, Len(bytes)),
                            !.out = IF u.err \/ tooLong THEN @ ELSE Append(@, u.msg),
                            !.pc = IF tooMany \/ tooLong THEN "returned" ELSE "read"]
        /\ closePc' = IF tooMany \/ tooLong THEN CloseCalled(p) ELSE closePc
        /\ UNCHANGED <<confVars, wire, sentNak, hs, codec, avmTx, vtxJob, peerVars, closed, tickerCloses, connCloses, senderCloses,
                       disconnectedCalls, queueVars, senderLock, netVars, writerVars, taskVars,
                       sf, crashed>>

\* conn.Read returns an error: the deadline passed, or the connection ended
ReadFramesError(p) ==
    /\ crashed = "no" /\ rd.pc = "read"
    /\ p \in live
    /\ rd' = [rd EXCEPT !.pc = "returned"]
    /\ closePc' = CloseCalled(p)
    /\ UNCHANGED <<confVars, wire, sentNak, hs, codec, avmTx, vtxJob, peerVars, closed, tickerCloses, connCloses, senderCloses,
                   disconnectedCalls, queueVars, senderLock, netVars, writerVars, taskVars,
                   sf, crashed>>

\* variant of handleConnected: the ops of the Router are not held back
handleConnectedAlways(p) == TRUE

\* if !p.connected.GetValue() { ... return }
handleConnected(p) == connected[p]

\* handle: SetReadDeadline fails on a closed connection (p.Close(); return);
\* otherwise the switch on the op. Version: a duplicate is dropped, a message
\* failing a check discards the IP. PeerList: p.gotPeerList.SetValue(true).
\* The ops of the Router: the test of connected.
handle(t) ==
    LET p == PeerOf(t) IN
    /\ crashed = "no" /\ hpc[t] = "h_begin"
    /\ IF connCloses[p] > 0
       THEN /\ Goto(t, "h_close")
            /\ closePc' = CloseCalled(p)
            /\ UNCHANGED gotPeerList
       ELSE /\ UNCHANGED closePc
            /\ IF hmsg[t].op = "Version"
               THEN /\ Goto(t, IF gotVersion[p] THEN HandlerDone(t)
                               ELSE IF hmsg[t].verdict # "ok" THEN "dip" ELSE "v_lock")
                    /\ UNCHANGED gotPeerList
               ELSE IF hmsg[t].op \in ConsensusOps
               THEN /\ Goto(t, IF handleConnected(p) THEN "h_peerVersion" ELSE "h_getVersion")
                    /\ UNCHANGED gotPeerList
               ELSE /\ gotPeerList' = [gotPeerList EXCEPT ![p] = TRUE]
                    /\ Goto(t, "tmc_check")
    /\ UNCHANGED <<confVars, auxVars, stPc, gotVersion, connected, connectedCalls, versionStruct, ip,
                   incomingSessionID, closed, tickerCloses, connCloses, senderCloses,
                   disconnectedCalls, queueVars, senderLock, netVars, writerVars, hold,
                   sf, crashed>>

\* a p.Close() called by a handler returned, and the handler returns
handleClosed(t) ==
    /\ crashed = "no" /\ hpc[t] = "h_close"
    /\ CloseReturned(PeerOf(t))
    /\ Goto(t, HandlerDone(t))
    /\ UNCHANGED <<confVars, auxVars, peerVars, closeVars, queueVars, senderLock, netVars, writerVars,
                   hold, sf, crashed>>

\* the message is dropped: if !p.gotVersion.GetValue() { p.GetVersion() }
handleGetVersion(t) ==
    LET p == PeerOf(t) IN
    /\ crashed = "no" /\ hpc[t] = "h_getVersion"
    /\ IF ~gotVersion[p]
       THEN /\ sf' = SendCalled(t, p, CtlLen)
            /\ hpc' = [hpc EXCEPT ![t] = "h_sentGetVersion"]
       ELSE /\ hpc' = [hpc EXCEPT ![t] = "h_getPeerList"]
            /\ UNCHANGED sf
    /\ UNCHANGED <<confVars, auxVars, peerVars, closeVars, queueVars, senderLock, netVars, writerVars,
                   hmsg, hold, crashed>>

\* the Send of GetVersion returned
handleSentGetVersion(t) ==
    /\ crashed = "no" /\ hpc[t] = "h_sentGetVersion"
    /\ sf[t].pc = "idle" /\ sf[t].ret # "none"
    /\ sf' = [sf EXCEPT ![t] = IdleFrame]
    /\ hpc' = [hpc EXCEPT ![t] = "h_getPeerList"]
    /\ UNCHANGED <<confVars, auxVars, peerVars, closeVars, queueVars, senderLock, netVars, writerVars,
                   hmsg, hold, crashed>>

\* if !p.gotPeerList.GetValue() { p.GetPeerList() }; return
handleGetPeerList(t) ==
    LET p == PeerOf(t) IN
    /\ crashed = "no" /\ hpc[t] = "h_getPeerList"
    /\ IF ~gotPeerList[p]
       THEN /\ sf' = SendCalled(t, p, CtlLen)
            /\ hpc' = [hpc EXCEPT ![t] = "h_sentGetPeerList"]
            /\ UNCHANGED hmsg
       ELSE /\ Goto(t, HandlerDone(t))
            /\ UNCHANGED sf
    /\ UNCHANGED <<confVars, auxVars, peerVars, closeVars, queueVars, senderLock, netVars, writerVars,
                   hold, crashed>>

\* the Send of GetPeerList returned, and handle returns
handleSentGetPeerList(t) ==
    /\ crashed = "no" /\ hpc[t] = "h_sentGetPeerList"
    /\ sf[t].pc = "idle" /\ sf[t].ret # "none"
    /\ sf' = [sf EXCEPT ![t] = IdleFrame]
    /\ Goto(t, HandlerDone(t))
    /\ UNCHANGED <<confVars, auxVars, peerVars, closeVars, queueVars, senderLock, netVars, writerVars,
                   hold, crashed>>

\* peerVersion := p.versionStruct.GetValue().(version.Version): the type
\* assertion on an interface that holds nothing panics; a message of a
\* validator that did not upgrade (unmasked) is dropped
handlePeerVersion(t, unmasked) ==
    LET p == PeerOf(t) IN
    /\ crashed = "no" /\ hpc[t] = "h_peerVersion"
    /\ IF ~versionStruct[p]
       THEN /\ crashed' = "interface conversion: interface is nil"
            /\ UNCHANGED <<hpc, hmsg>>
       ELSE /\ Goto(t, IF unmasked THEN HandlerDone(t) ELSE "h_route")
            /\ UNCHANGED crashed
    /\ UNCHANGED <<confVars, auxVars, peerVars, closeVars, queueVars, senderLock, netVars, writerVars,
                   hold, sf>>

\* switch op { case GetAcceptedFrontier: p.getAcceptedFrontier(msg) ... }: the
\* message is passed to the Router
handleRoute(t) ==
    /\ crashed = "no" /\ hpc[t] = "h_route"
    /\ Goto(t, HandlerDone(t))
    /\ UNCHANGED <<confVars, auxVars, peerVars, closeVars, queueVars, senderLock, netVars, writerVars,
                   hold, sf, crashed>>

handleConsensus(t) ==
    \/ handleGetVersion(t) \/ handleSentGetVersion(t) \/ handleGetPeerList(t)
    \/ handleSentGetPeerList(t) \/ handleRoute(t)
    \/ \E unmasked \in BOOLEAN : handlePeerVersion(t, unmasked)

(************************ discardIP / discardMyIP **************************)
\* if ip := p.getIP(); !ip.IsZero() { p.setIP(utils.IPDesc{}); stateLock.Lock() ...
\* else p.Close()
discardClearIP(t) ==
    LET p == PeerOf(t) IN
    /\ crashed = "no" /\ hpc[t] = "dip"
    /\ IF ip[p]
       THEN /\ ip' = [ip EXCEPT ![p] = FALSE]
            /\ hpc' = [hpc EXCEPT ![t] = "dip_lock"]
            /\ UNCHANGED closePc
       ELSE /\ hpc' = [hpc EXCEPT ![t] = "h_close"]
            /\ closePc' = CloseCalled(p)
            /\ UNCHANGED ip
    /\ UNCHANGED <<confVars, auxVars, stPc, gotVersion, gotPeerList, connected, connectedCalls,
                   versionStruct, incomingSessionID, closed, tickerCloses, connCloses,
                   senderCloses, disconnectedCalls, queueVars, senderLock, netVars, writerVars,
                   hmsg, hold, sf, crashed>>

\* p.net.stateLock.Lock()
discardLock(t) ==
    /\ crashed = "no" /\ hpc[t] = "dip_lock"
    /\ StateLockFree
    /\ stateLock' = t
    /\ hpc' = [hpc EXCEPT ![t] = "dip_unlock"]
    /\ UNCHANGED <<confVars, auxVars, peerVars, closeVars, queueVars, senderLock, peers, nextSessionID,
                   writerVars, hmsg, hold, sf, crashed>>

\* delete(p.net.disconnectedIPs, ...); p.net.stateLock.Unlock(); p.Close()
discardUnlock(t) ==
    /\ crashed = "no" /\ hpc[t] = "dip_unlock"
    /\ stateLock' = StateUnlocked
    /\ crashed' = CrashedByUnlock
    /\ hpc' = [hpc EXCEPT ![t] = "h_close"]
    /\ closePc' = CloseCalled(PeerOf(t))
    /\ UNCHANGED <<confVars, auxVars, peerVars, closed, tickerCloses, connCloses, senderCloses,
                   disconnectedCalls, queueVars, senderLock, peers, nextSessionID, writerVars,
                   hmsg, hold, sf>>

discardIP(t) == discardClearIP(t) \/ discardLock(t) \/ discardUnlock(t)

(******************************* version ***********************************)
\* p.net.stateLock.Lock()
versionLock(t) ==
    /\ crashed = "no" /\ hpc[t] = "v_lock"
    /\ StateLockFree
    /\ stateLock' = t
    /\ hpc' = [hpc EXCEPT ![t] = "v_look"]
    /\ UNCHANGED <<confVars, auxVars, peerVars, closeVars, queueVars, senderLock, peers, nextSessionID,
                   writerVars, hmsg, hold, sf, crashed>>

\* isConnected && sessionID != 0 && sessionID < nextSessionID
StaleSession(sessionID, isConnected, next) == isConnected /\ sessionID # 0 /\ sessionID < next

\* nextSessionID := ...; _, isConnected := p.net.peers[peerKey]; Unlock();
\* a stale session discards the IP
versionArbitrate(t) ==
    LET p == PeerOf(t) IN
    /\ crashed = "no" /\ hpc[t] = "v_look"
    /\ stateLock' = StateUnlocked
    /\ crashed' = CrashedByUnlock
    /\ hpc' = [hpc EXCEPT ![t] =
           IF StaleSession(hmsg[t].sessionID, peers[id[p]] # NoPeer, nextSessionID[id[p]])
           THEN "dip" ELSE "v_ip"]
    /\ UNCHANGED <<confVars, auxVars, peerVars, closeVars, queueVars, senderLock, peers, nextSessionID,
                   writerVars, hmsg, hold, sf>>

\* if p.ip.IsZero() { ... p.setIP(peerIP) when it matches the remote address };
\* p.SendPeerList(): validatorIPs() reads under stateLock, then Send
versionSendPeerList(t, match) ==
    LET p == PeerOf(t) IN
    /\ crashed = "no" /\ hpc[t] = "v_ip"
    /\ StateLockReadable
    /\ ip' = [ip EXCEPT ![p] = @ \/ match]
    /\ sf' = SendCalled(t, p, CtlLen)
    /\ hpc' = [hpc EXCEPT ![t] = "v_sent"]
    /\ UNCHANGED <<confVars, auxVars, stPc, gotVersion, gotPeerList, connected, connectedCalls,
                   versionStruct, incomingSessionID, closeVars, queueVars, senderLock, netVars,
                   writerVars, hmsg, hold, crashed>>

\* Send returned: p.versionStruct.SetValue(peerVersion); p.versionStr...;
\* p.gotVersion.SetValue(true)
versionGotVersion(t) ==
    LET p == PeerOf(t) IN
    /\ crashed = "no" /\ hpc[t] = "v_sent"
    /\ sf[t].pc = "idle" /\ sf[t].ret # "none"
    /\ sf' = [sf EXCEPT ![t] = IdleFrame]
    /\ versionStruct' = [versionStruct EXCEPT ![p] = TRUE]
    /\ gotVersion' = [gotVersion EXCEPT ![p] = TRUE]
    /\ hpc' = [hpc EXCEPT ![t] = "v_session"]
    /\ UNCHANGED <<confVars, auxVars, stPc, gotPeerList, connected, connectedCalls, ip,
                   incomingSessionID, closeVars, queueVars, senderLock, netVars, writerVars,
                   hmsg, hold, crashed>>

\* p.incomingSessionID = sessionID; p.tryMarkConnected()
versionSessionID(t) ==
    LET p == PeerOf(t) IN
    /\ crashed = "no" /\ hpc[t] = "v_session"
    /\ incomingSessionID' = [incomingSessionID EXCEPT ![p] = hmsg[t].sessionID]
    /\ hpc' = [hpc EXCEPT ![t] = "tmc_check"]
    /\ UNCHANGED <<confVars, auxVars, stPc, gotVersion, gotPeerList, connected, connectedCalls,
                   versionStruct, ip, closeVars, queueVars, senderLock, netVars, writerVars,
                   hmsg, hold, sf, crashed>>

version(t) ==
    \/ versionLock(t) \/ versionArbitrate(t)
    \/ \E match \in BOOLEAN : versionSendPeerList(t, match)
    \/ versionGotVersion(t) \/ versionSessionID(t)

(*************************** tryMarkConnected ******************************)
\* variant of tryMarkConnectedReady: the PeerList is not waited for
tryMarkConnectedReadyEarly(p) == ~connected[p] /\ gotVersion[p]

\* if !p.connected && p.gotVersion && p.gotPeerList
tryMarkConnectedReady(p) == ~connected[p] /\ gotVersion[p] /\ gotPeerList[p]

\* Next session ID = 1 + max(our next session ID, incoming session ID), uint32
NextSession(next, incoming) == ((IF incoming > next THEN incoming ELSE next) + 1) % SessionMod

\* where the caller of tryMarkConnected goes on: peerList tracks the IPs of
\* the message, version returns
AfterTryMarkConnected(t) ==
    IF hmsg[t].op = "PeerList" /\ hmsg[t].ips > 0 THEN "pl_lock" ELSE HandlerDone(t)

\* the test of the flags, and if p.closed { return }
tryMarkConnectedCheck(t) ==
    LET p == PeerOf(t) IN
    /\ crashed = "no" /\ hpc[t] = "tmc_check"
    /\ Goto(t, IF tryMarkConnectedReady(p) /\ ~closed[p]
                THEN "tmc_old" ELSE AfterTryMarkConnected(t))
    /\ UNCHANGED <<confVars, auxVars, peerVars, closeVars, queueVars, senderLock, netVars, writerVars,
                   hold, sf, crashed>>

\* oldConnection, ok := p.net.peers[key]
tryMarkConnectedOld(t) ==
    LET p == PeerOf(t) IN
    /\ crashed = "no" /\ hpc[t] = "tmc_old"
    /\ hold' = [hold EXCEPT ![t] = peers[id[p]]]
    /\ hpc' = [hpc EXCEPT ![t] = IF peers[id[p]] # NoPeer THEN "tmc_unlock" ELSE "tmc_connected"]
    /\ UNCHANGED <<confVars, auxVars, peerVars, closeVars, queueVars, senderLock, netVars, writerVars,
                   hmsg, sf, crashed>>

\* p.net.stateLock.Unlock(); oldConnection.Close() is called
tryMarkConnectedUnlock(t) ==
    /\ crashed = "no" /\ hpc[t] = "tmc_unlock"
    /\ stateLock' = StateUnlocked
    /\ crashed' = CrashedByUnlock
    /\ closePc' = CloseCalled(hold[t])
    /\ hpc' = [hpc EXCEPT ![t] = "tmc_close"]
    /\ UNCHANGED <<confVars, auxVars, peerVars, closed, tickerCloses, connCloses, senderCloses,
                   disconnectedCalls, queueVars, senderLock, peers, nextSessionID, writerVars,
                   hmsg, hold, sf>>

\* oldConnection.Close() returned; p.net.stateLock.Lock()
tryMarkConnectedLock(t) ==
    /\ crashed = "no" /\ hpc[t] = "tmc_close"
    /\ CloseReturned(hold[t])
    /\ StateLockFree
    /\ stateLock' = t
    /\ hold' = [hold EXCEPT ![t] = NoPeer]
    /\ hpc' = [hpc EXCEPT ![t] = "tmc_connected"]
    /\ UNCHANGED <<confVars, auxVars, peerVars, closeVars, queueVars, senderLock, peers, nextSessionID,
                   writerVars, hmsg, sf, crashed>>

\* p.connected = true
tryMarkConnectedSet(t) ==
    LET p == PeerOf(t) IN
    /\ crashed = "no" /\ hpc[t] = "tmc_connected"
    /\ connected' = [connected EXCEPT ![p] = TRUE]
    /\ hold' = [hold EXCEPT ![t] = NoPeer]
    /\ hpc' = [hpc EXCEPT ![t] = "tmc_session"]
    /\ UNCHANGED <<confVars, auxVars, stPc, gotVersion, gotPeerList, connectedCalls, versionStruct, ip,
                   incomingSessionID, closeVars, queueVars, senderLock, netVars, writerVars,
                   hmsg, sf, crashed>>

\* the update of p.net.nextSessionID[key]
tryMarkConnectedSession(t) ==
    LET p == PeerOf(t) IN
    /\ crashed = "no" /\ hpc[t] = "tmc_session"
    /\ nextSessionID' = [nextSessionID EXCEPT ![id[p]] = NextSession(@, incomingSessionID[p])]
    /\ hpc' = [hpc EXCEPT ![t] = "tmc_store"]
    /\ UNCHANGED <<confVars, auxVars, peerVars, closeVars, queueVars, senderLock, peers, stateLock,
                   writerVars, hmsg, hold, sf, crashed>>

\* the Network connected hook: a notification (router, metrics)
connectedHook(p) == [connectedCalls EXCEPT ![p] = @ + 1]

\* p.net.peers[key] = p; p.net.numPeers.Set(...); p.net.connected(p)
tryMarkConnectedStore(t) ==
    LET p == PeerOf(t) IN
    /\ crashed = "no" /\ hpc[t] = "tmc_store"
    /\ peers' = [peers EXCEPT ![id[p]] = p]
    /\ connectedCalls' = connectedHook(p)
    /\ Goto(t, AfterTryMarkConnected(t))
    /\ UNCHANGED <<confVars, auxVars, stPc, gotVersion, gotPeerList, connected, versionStruct, ip,
                   incomingSessionID, closeVars, queueVars, senderLock, nextSessionID, stateLock,
                   writerVars, hold, sf, crashed>>

tryMarkConnected(t) ==
    \/ tryMarkConnectedCheck(t) \/ tryMarkConnectedOld(t) \/ tryMarkConnectedUnlock(t)
    \/ tryMarkConnectedLock(t) \/ tryMarkConnectedSet(t) \/ tryMarkConnectedSession(t)
    \/ tryMarkConnectedStore(t)

(******************************* peerList **********************************)
\* for _, ip := range ips { p.net.stateLock.Lock() ...
peerListLock(t) ==
    /\ crashed = "no" /\ hpc[t] = "pl_lock"
    /\ StateLockFree
    /\ stateLock' = t
    /\ hpc' = [hpc EXCEPT ![t] = "pl_track"]
    /\ UNCHANGED <<confVars, auxVars, peerVars, closeVars, queueVars, senderLock, peers, nextSessionID,
                   writerVars, hmsg, hold, sf, crashed>>

\* ... p.net.track(ip); p.net.stateLock.Unlock() }
peerListTrack(t) ==
    /\ crashed = "no" /\ hpc[t] = "pl_track"
    /\ stateLock' = StateUnlocked
    /\ crashed' = CrashedByUnlock
    /\ hpc' = [hpc EXCEPT ![t] = IF hmsg[t].ips > 1 THEN "pl_lock" ELSE HandlerDone(t)]
    /\ hmsg' = [hmsg EXCEPT ![t] = IF hmsg[t].ips > 1 THEN [@ EXCEPT !.ips = @ - 1] ELSE NoMsg]
    /\ UNCHANGED <<confVars, auxVars, peerVars, closeVars, queueVars, senderLock, peers, nextSessionID,
                   writerVars, hold, sf>>

peerList(t) == peerListLock(t) \/ peerListTrack(t)

(************************ the goroutines of Start **************************)
\* p.Version(): p.net.stateLock.RLock()
VersionRLock(t) ==
    /\ crashed = "no" /\ hpc[t] = "sv_rlock"
    /\ StateLockReadable
    /\ stateLock' = StateRLocked
    /\ hpc' = [hpc EXCEPT ![t] = "sv_unlock"]
    /\ UNCHANGED <<confVars, auxVars, peerVars, closeVars, queueVars, senderLock, peers, nextSessionID,
                   writerVars, hmsg, hold, sf, crashed>>

\* p.Version(): p.net.stateLock.Unlock()
VersionUnlock(t) ==
    /\ crashed = "no" /\ hpc[t] = "sv_unlock"
    /\ stateLock' = StateUnlocked
    /\ crashed' = CrashedByUnlock
    /\ hpc' = [hpc EXCEPT ![t] = "sp_send"]
    /\ UNCHANGED <<confVars, auxVars, peerVars, closeVars, queueVars, senderLock, peers, nextSessionID,
                   writerVars, hmsg, hold, sf>>

\* p.Send(msg) of p.Version() and of p.GetPeerList()
SpawnedSend(t) ==
    /\ crashed = "no" /\ hpc[t] = "sp_send"
    /\ sf' = SendCalled(t, PeerOf(t), CtlLen)
    /\ hpc' = [hpc EXCEPT ![t] = "sp_sent"]
    /\ UNCHANGED <<confVars, auxVars, peerVars, closeVars, queueVars, senderLock, netVars, writerVars,
                   hmsg, hold, crashed>>

\* Send returned and the goroutine ends
SpawnedReturn(t) ==
    /\ crashed = "no" /\ hpc[t] = "sp_sent"
    /\ sf[t].pc = "idle" /\ sf[t].ret # "none"
    /\ sf' = [sf EXCEPT ![t] = IdleFrame]
    /\ hpc' = [hpc EXCEPT ![t] = "exit"]
    /\ UNCHANGED <<confVars, auxVars, peerVars, closeVars, queueVars, senderLock, netVars, writerVars,
                   hmsg, hold, crashed>>

Version(t) == VersionRLock(t) \/ VersionUnlock(t) \/ SpawnedSend(t) \/ SpawnedReturn(t)

(************************* the ticker goroutines ***************************)
\* case <-p.tickerCloser: return
tickerClosed(t) ==
    /\ crashed = "no" /\ hpc[t] = "tk_select"
    /\ tickerCloses[PeerOf(t)] > 0
    /\ hpc' = [hpc EXCEPT ![t] = "exit"]
    /\ UNCHANGED <<confVars, auxVars, peerVars, closeVars, queueVars, senderLock, netVars, writerVars,
                   hmsg, hold, sf, crashed>>

\* the Send of a ticker goroutine returned: the next one, or back to the select
tickerSent(t) ==
    /\ crashed = "no" /\ hpc[t] \in {"tk_sent", "tk_sentVersion", "tk_sentVersionOnly"}
    /\ sf[t].pc = "idle" /\ sf[t].ret # "none"
    /\ IF hpc[t] = "tk_sentVersion"
       THEN /\ sf' = SendCalled(t, PeerOf(t), CtlLen)
            /\ hpc' = [hpc EXCEPT ![t] = "tk_sent"]
       ELSE /\ sf' = [sf EXCEPT ![t] = IdleFrame]
            /\ hpc' = [hpc EXCEPT ![t] = "tk_select"]
    /\ UNCHANGED <<confVars, auxVars, peerVars, closeVars, queueVars, senderLock, netVars, writerVars,
                   hmsg, hold, crashed>>

\* sendPings, case <-sendPingsTicker.C: if closed { return }; p.Ping()
sendPingsTick(t) ==
    /\ crashed = "no" /\ t[1] = "ping" /\ hpc[t] = "tk_select"
    /\ IF closed[PeerOf(t)]
       THEN /\ hpc' = [hpc EXCEPT ![t] = "exit"]
            /\ UNCHANGED sf
       ELSE /\ hpc' = [hpc EXCEPT ![t] = "tk_sent"]
            /\ sf' = SendCalled(t, PeerOf(t), CtlLen)
    /\ UNCHANGED <<confVars, auxVars, peerVars, closeVars, queueVars, senderLock, netVars, writerVars,
                   hmsg, hold, crashed>>

sendPings(t) == sendPingsTick(t) \/ tickerClosed(t) \/ tickerSent(t)

\* variant of requestFinishHandshakeTick: the ticker goes on after the
\* handshake
requestFinishHandshakeTickOn(t) ==
    LET p == PeerOf(t) IN
    /\ crashed = "no" /\ t[1] = "finish" /\ hpc[t] = "tk_select"
    /\ IF gotVersion[p] /\ gotPeerList[p]
       THEN UNCHANGED <<hpc, sf>>
       ELSE /\ hpc' = [hpc EXCEPT ![t] = IF gotVersion[p] THEN "tk_sent"
                                         ELSE IF gotPeerList[p] THEN "tk_sentVersionOnly"
                                         ELSE "tk_sentVersion"]
            /\ sf' = SendCalled(t, p, CtlLen)
    /\ UNCHANGED <<confVars, auxVars, peerVars, closeVars, queueVars, senderLock, netVars, writerVars,
                   hmsg, hold, crashed>>

\* requestFinishHandshake, case <-finishHandshakeTicker.C: the four flags are
\* read; if connected || closed { return }; GetVersion and GetPeerList are sent
\* for the flags that are not set: at tk_sentVersion GetVersion is being sent
\* and GetPeerList follows, at tk_sentVersionOnly GetVersion alone, at tk_sent
\* GetPeerList
requestFinishHandshakeTick(t) ==
    LET p == PeerOf(t) IN
    /\ crashed = "no" /\ t[1] = "finish" /\ hpc[t] = "tk_select"
    /\ IF connected[p] \/ closed[p]
       THEN /\ hpc' = [hpc EXCEPT ![t] = "exit"]
            /\ UNCHANGED sf
       ELSE IF gotVersion[p] /\ gotPeerList[p]
       THEN UNCHANGED <<hpc, sf>>
       ELSE /\ hpc' = [hpc EXCEPT ![t] = IF gotVersion[p] THEN "tk_sent"
                                         ELSE IF gotPeerList[p] THEN "tk_sentVersionOnly"
                                         ELSE "tk_sentVersion"]
            /\ sf' = SendCalled(t, p, CtlLen)
    /\ UNCHANGED <<confVars, auxVars, peerVars, closeVars, queueVars, senderLock, netVars, writerVars,
                   hmsg, hold, crashed>>

requestFinishHandshake(t) == requestFinishHandshakeTick(t) \/ tickerClosed(t) \/ tickerSent(t)

(********************************* Start ***********************************)
\* what Start reads after sending its Version: a read error, a message that
\* is neither Version nor PeerList, a PeerList, or a Version
StartInputs == {[op |-> "error"], [op |-> "Other"]} \cup PeerListMsgs \cup VersionMsgs

\* peerVersion.Before(VersionPeerNak)
BeforeVersionPeerNak(m) == m.op = "Version" /\ m.versionStr \in {"incompatible", "legacy"}

\* a Start that returns an error ends the connection: the caller closes the Peer
StartFailed(p) == CloseCalled(p)

\* go p.handle(msg); go p.ReadMessages(); go p.Version() or go p.GetPeerList();
\* go p.WriteMessages(); go p.requestFinishHandshake(); go p.sendPings()
Spawned(p, m) ==
    /\ hpc' = [hpc EXCEPT ![FirstTask(p)] = "h_begin", ![ReaderTask(p)] = "r_read",
                          ![SpawnTask(p)] = IF m.op = "PeerList" THEN "sv_rlock" ELSE "sp_send",
                          ![FinishTask(p)] = "tk_select", ![PingTask(p)] = "tk_select"]
    /\ hmsg' = [hmsg EXCEPT ![FirstTask(p)] = Handled(m, p)]
    /\ wpc' = [wpc EXCEPT ![p] = "w_range"]

\* p.net.isPeered(p.id)
isPeered(i) == peers[i] # NoPeer

\* the errors Start returns
StartErrors == {"errRead", "errParse", "errVersionExpected", "errPeerIsMyself",
                "errAlreadyPeered", "errVersionNakExpected", "errErrorNo"}

\* Start after a failed verionAck, the connection being at its end (io.EOF)
ReadErrorOf(peered) == IF peered THEN "errAlreadyPeered" ELSE "errRead"

\* the error Start returns before processVersionNak, "nil" if none
StartError(p, m) ==
    IF m.op = "error" THEN ReadErrorOf(isPeered(id[p]))
    ELSE IF m.op = "PeerList" THEN IF id[p] = MyID THEN "errPeerIsMyself" ELSE "nil"
    ELSE IF m.op # "Version"
    THEN IF id[p] = MyID THEN "errPeerIsMyself" ELSE "errVersionExpected"
    ELSE IF m.versionStr = "junk" THEN "errParse"
    ELSE IF BeforeVersionPeerNak(m) /\ id[p] = MyID THEN "errPeerIsMyself"
    ELSE "nil"

NakCodeNoSelf(myself, peered) == IF peered THEN "AlreadyPeered" ELSE "Success"

NakCodeNoPeered(myself, peered) == IF myself THEN "SelfPeered" ELSE "Success"

\* the errorNo processVersionNak hands to versionNack: SelfPeered when the
\* peer's id is our own, AlreadyPeered when the peer is in peers, else Success
NakCode(myself, peered) ==
    IF myself THEN "SelfPeered"
    ELSE IF peered THEN "AlreadyPeered" ELSE "Success"

NakErrorTrusting(own, read) ==
    IF own = "SelfPeered" THEN "errPeerIsMyself"
    ELSE IF own = "AlreadyPeered" THEN "errAlreadyPeered"
    ELSE "nil"

\* what processVersionNak returns after versionNack: after our SelfPeered or
\* AlreadyPeered the error, whatever was read; after our Success an error on
\* a read or send error and on every errorNo but Success
NakError(own, read) ==
    IF own = "SelfPeered" THEN "errPeerIsMyself"
    ELSE IF own = "AlreadyPeered" THEN "errAlreadyPeered"
    ELSE IF read = "error" THEN "errVersionNakExpected"
    ELSE IF read = "AlreadyPeered" THEN "errAlreadyPeered"
    ELSE IF read = "SelfPeered" THEN "errPeerIsMyself"
    ELSE IF read = "Success" THEN "nil"
    ELSE "errErrorNo"

\* Start up to the call of processVersionNak. The caller holds stateLock.
Start(p, m) ==
    /\ crashed = "no" /\ p \in live /\ stPc[p] = "new"
    /\ StateLockFree
    /\ IF StartError(p, m) # "nil"
       THEN /\ stPc' = [stPc EXCEPT ![p] = StartError(p, m)]
            /\ closePc' = StartFailed(p)
            /\ UNCHANGED <<ip, stateLock, hpc, hmsg, wpc>>
       ELSE IF m.op = "PeerList" \/ BeforeVersionPeerNak(m)
       THEN /\ stPc' = [stPc EXCEPT ![p] = "running"]
            /\ Spawned(p, m)
            /\ UNCHANGED <<ip, stateLock, closePc>>
       ELSE /\ stPc' = [stPc EXCEPT ![p] = "pvn"]
            /\ ip' = [ip EXCEPT ![p] = TRUE]
            /\ stateLock' = StartTask(p)
            /\ UNCHANGED <<closePc, hpc, hmsg, wpc>>
    /\ UNCHANGED <<confVars, auxVars, gotVersion, gotPeerList, connected, connectedCalls, versionStruct,
                   incomingSessionID, closed, tickerCloses, connCloses, senderCloses,
                   disconnectedCalls, queueVars, senderLock, peers, nextSessionID, wmsg, hold,
                   sf, crashed>>

\* the answers of the peer to our VersionNak(Success)
NakReplies == {"error", "AlreadyPeered", "SelfPeered", "Success", "Other"}

\* processVersionNak up to the test of the errorNo of the peer's VersionNak
processVersionNak(p, nak) ==
    /\ crashed = "no" /\ stPc[p] = "pvn"
    /\ sentNak' = [sentNak EXCEPT ![p] = NakCode(id[p] = MyID, isPeered(id[p]))]
    /\ IF NakError(sentNak'[p], nak) # "nil"
       THEN /\ stPc' = [stPc EXCEPT ![p] = NakError(sentNak'[p], nak)]
            /\ closePc' = StartFailed(p)
            /\ stateLock' = StateUnlocked
            /\ crashed' = CrashedByUnlock
       ELSE /\ stPc' = [stPc EXCEPT ![p] = "pvn_gotVersion"]
            /\ UNCHANGED <<closePc, stateLock, crashed>>
    /\ UNCHANGED <<confVars, wire, rd, hs, codec, avmTx, vtxJob, gotVersion, gotPeerList, connected, connectedCalls, versionStruct,
                   ip, incomingSessionID, closed, tickerCloses, connCloses, senderCloses,
                   disconnectedCalls, queueVars, senderLock, peers, nextSessionID, writerVars,
                   taskVars, sf>>

\* p.gotVersion.SetValue(true)
processVersionNakGotVersion(p) ==
    /\ crashed = "no" /\ stPc[p] = "pvn_gotVersion"
    /\ gotVersion' = [gotVersion EXCEPT ![p] = TRUE]
    /\ stPc' = [stPc EXCEPT ![p] = "pvn_gotPeerList"]
    /\ UNCHANGED <<confVars, auxVars, gotPeerList, connected, connectedCalls, versionStruct, ip,
                   incomingSessionID, closeVars, queueVars, senderLock, netVars, writerVars,
                   taskVars, sf, crashed>>

\* p.gotPeerList.SetValue(true)
processVersionNakGotPeerList(p) ==
    /\ crashed = "no" /\ stPc[p] = "pvn_gotPeerList"
    /\ gotPeerList' = [gotPeerList EXCEPT ![p] = TRUE]
    /\ stPc' = [stPc EXCEPT ![p] = "pvn_connected"]
    /\ UNCHANGED <<confVars, auxVars, gotVersion, connected, connectedCalls, versionStruct, ip,
                   incomingSessionID, closeVars, queueVars, senderLock, netVars, writerVars,
                   taskVars, sf, crashed>>

\* p.connected.SetValue(true)
processVersionNakConnected(p) ==
    /\ crashed = "no" /\ stPc[p] = "pvn_connected"
    /\ connected' = [connected EXCEPT ![p] = TRUE]
    /\ stPc' = [stPc EXCEPT ![p] = "pvn_hook"]
    /\ UNCHANGED <<confVars, auxVars, gotVersion, gotPeerList, connectedCalls, versionStruct, ip,
                   incomingSessionID, closeVars, queueVars, senderLock, netVars, writerVars,
                   taskVars, sf, crashed>>

\* p.net.connected(p); go p.ReadMessages(); go p.WriteMessages(); go p.sendPings(); return
\* nil, and the caller of Start releases stateLock
processVersionNakSpawn(p) ==
    /\ crashed = "no" /\ stPc[p] = "pvn_hook"
    /\ connectedCalls' = connectedHook(p)
    /\ hpc' = [hpc EXCEPT ![ReaderTask(p)] = "r_read", ![PingTask(p)] = "tk_select"]
    /\ wpc' = [wpc EXCEPT ![p] = "w_range"]
    /\ stPc' = [stPc EXCEPT ![p] = "running"]
    /\ stateLock' = StateUnlocked
    /\ crashed' = CrashedByUnlock
    /\ UNCHANGED <<confVars, auxVars, gotVersion, gotPeerList, connected, versionStruct, ip,
                   incomingSessionID, closeVars, queueVars, senderLock, peers, nextSessionID,
                   wmsg, hmsg, hold, sf>>

(***************** Start at both ends of one connection ********************)
(* Two nodes run Start on the two ends of a reliable connection. End e     *)
(* belongs to node hs.nodeID[e], which advertises version hs.ver[e] and    *)
(* has, or has not, the other node in its peers (hs.peered[e]); each node  *)
(* holds its own stateLock for the time of its Start. What an end sends is *)
(* appended to the inbox of the other end. An end whose Start returned an  *)
(* error is closed by its node.                                            *)
Ends == {1, 2}
OtherEnd(e) == 3 - e

\* the connection is closed at end e
EndClosed(e) == hs.pc[e] \in StartErrors

\* Start: SetReadDeadline; verionAck: sendRaw of our Version. verionAck
\* hands the Builder networkID, nodeID, the time, the IP and the version
\* string and no session id: the SessionID of the message is whatever the
\* build makes of the call, nextSessionID is not read
verionAckSend(e) ==
    /\ crashed = "no" /\ hs.pc # <<>> /\ hs.pc[e] = "start"
    /\ \E s \in SessionIDs :
           hs' = [hs EXCEPT !.pc[e] = "readVersion",
                           !.inbox[OtherEnd(e)] =
                               Append(@, [op |-> "Version", versionStr |-> hs.ver[e],
                                          sessionID |-> s])]
    /\ UNCHANGED <<confVars, wire, rd, sentNak, codec, avmTx, vtxJob, peerVars, closeVars, queueVars, senderLock,
                   netVars, writerVars, taskVars, sf, crashed>>

\* verionAck: readMsg, and Start up to the call of processVersionNak: a read
\* error and a version string that does not parse end Start with an error
verionAckRead(e) ==
    /\ crashed = "no" /\ hs.pc # <<>> /\ hs.pc[e] = "readVersion"
    /\ IF hs.inbox[e] # <<>>
       THEN LET msg == Head(hs.inbox[e]) IN
            hs' = [hs EXCEPT !.inbox[e] = Tail(@),
                             !.pc[e] = IF msg.op = "Version" /\ msg.versionStr # "junk"
                                       THEN "pvn" ELSE "errParse"]
       ELSE /\ EndClosed(OtherEnd(e))
            /\ hs' = [hs EXCEPT !.pc[e] = ReadErrorOf(hs.peered[e])]
    /\ UNCHANGED <<confVars, wire, rd, sentNak, codec, avmTx, vtxJob, peerVars, closeVars, queueVars, senderLock,
                   netVars, writerVars, taskVars, sf, crashed>>

\* the errorNo end e hands to versionNack
OwnNak(e) == NakCode(hs.nodeID[OtherEnd(e)] = hs.nodeID[e], hs.peered[e])

\* processVersionNak / versionNack: sendRaw of our VersionNak; on a connection
\* the other end has closed sendRaw may fail, which ends Start with an error
versionNackSend(e) ==
    /\ crashed = "no" /\ hs.pc # <<>> /\ hs.pc[e] = "pvn"
    /\ \/ hs' = [hs EXCEPT !.pc[e] = "readNak", !.nak[e] = OwnNak(e),
                           !.inbox[OtherEnd(e)] =
                               Append(@, [op |-> "VersionNak", errorNo |-> OwnNak(e)])]
       \/ /\ EndClosed(OtherEnd(e))
          /\ hs' = [hs EXCEPT !.pc[e] = NakError(OwnNak(e), "error"), !.nak[e] = OwnNak(e)]
    /\ UNCHANGED <<confVars, wire, rd, sentNak, codec, avmTx, vtxJob, peerVars, closeVars, queueVars, senderLock,
                   netVars, writerVars, taskVars, sf, crashed>>

\* versionNack: readMsg; the switch on errorNo; on success gotVersion,
\* gotPeerList and connected are set and the goroutines are started
versionNackRead(e) ==
    /\ crashed = "no" /\ hs.pc # <<>> /\ hs.pc[e] = "readNak"
    /\ IF hs.inbox[e] # <<>>
       THEN LET msg == Head(hs.inbox[e]) IN
            LET err == NakError(hs.nak[e], msg.errorNo) IN
            hs' = [hs EXCEPT !.inbox[e] = Tail(@),
                             !.pc[e] = IF err = "nil" THEN "connected" ELSE err]
       ELSE /\ EndClosed(OtherEnd(e))
            /\ hs' = [hs EXCEPT !.pc[e] = NakError(hs.nak[e], "error")]
    /\ UNCHANGED <<confVars, wire, rd, sentNak, codec, avmTx, vtxJob, peerVars, closeVars, queueVars, senderLock,
                   netVars, writerVars, taskVars, sf, crashed>>

(********************************* Next ************************************)
ReadError == [op |-> "error"]

HandlerStep(t) ==
    \/ handle(t) \/ handleClosed(t) \/ discardIP(t) \/ version(t) \/ tryMarkConnected(t)
    \/ peerList(t) \/ Version(t)

StartStep(p) ==
    \/ \E m \in (remote \cap StartInputs) \cup {ReadError} : Start(p, m)
    \/ \E nak \in NakReplies : processVersionNak(p, nak)
    \/ processVersionNakGotVersion(p) \/ processVersionNakGotPeerList(p)
    \/ processVersionNakConnected(p) \/ processVersionNakSpawn(p)

ReaderStep(p) ==
    \/ \E m \in (remote \cap (PeerListMsgs \cup VersionMsgs)) \cup {ReadError} : ReadMessages(p, m)
    \/ ReadReturn(p)

\* the read fails: the peer went away, or the read deadline passed
ReaderFails(p) == ReadMessages(p, ReadError) \/ ReadReturn(p)

CallerStep == \E t \in Callers, p \in Peers, n \in MsgLens : CallSend(t, p, n)

\* a modern node with another id, in step with our clock and network
ModernVersion(s) == [op |-> "Version", networkID |-> "ours", nodeID |-> "other", skew |-> 0,
                     versionStr |-> "modern", sessionID |-> s]
\* a legacy node
LegacyVersion(s) == [ModernVersion(s) EXCEPT !.versionStr = "legacy"]

(* Sending: the tasks around the sender queue of Peers that completed the   *)
(* Version/VersionNak handshake: outside callers of Send, the writer, the   *)
(* reader whose read fails, and Close.                                      *)
NextSend ==
    \/ \E p \in Peers : StartStep(p) \/ close(p) \/ ReaderFails(p) \/ WriteMessages(p)
    \/ \E t \in Callers : Send(t)
    \/ CallerStep

\* one Peer and one outside caller of Send
InitSend == InitWith({1}, {<<"caller", 1>>}, [p \in Peers |-> "n1"], {ModernVersion(0)},
                     SendQueueSize)
Spec == InitSend /\ [][NextSend]_vars

\* two Peers of two nodes and one outside caller of Send
InitNet == InitWith({1, 2}, {<<"caller", 1>>}, [p \in Peers |-> IF p = 1 THEN "n1" ELSE "n2"],
                    {ModernVersion(0)}, 1)
\* as NextSend, with connections that end only by a failed write
NextNet ==
    \/ \E p \in Peers : StartStep(p) \/ close(p) \/ WriteMessages(p)
    \/ \E t \in Callers : Send(t)
    \/ CallerStep

SpecNet == InitNet /\ [][NextNet]_vars

(* Handshake: one connection, with its reader and the goroutines of Start,  *)
(* the registry and Close. The frames the handlers send stay queued: the    *)
(* writer does not run.                                                     *)
NextHandshake ==
    \/ \E p \in Peers : StartStep(p) \/ close(p) \/ ReaderStep(p)
    \/ \E t \in PeerTasks : HandlerStep(t) \/ Send(t)

\* a Version of another network
ForeignVersion == [LegacyVersion(0) EXCEPT !.networkID = "other"]

InitHandshake ==
    InitWith({1}, {}, [p \in Peers |-> "n1"],
             {ModernVersion(0), LegacyVersion(0), LegacyVersion(2), ForeignVersion,
              [op |-> "PeerList", ips |-> 1], [op |-> "Other"]},
             SendQueueSize)
SpecHandshake == InitHandshake /\ [][NextHandshake]_vars

(* Registry: two connections to the same legacy node handshake at once.    *)
(* The node sends its Version and then PeerLists on each, and a read fails *)
(* only on a closed connection. The goroutines Start spawns to send        *)
(* Version or GetPeerList and the writers are not scheduled before the     *)
(* handshakes end.                                                         *)
\* Send where the queue has room for the frame
SendQueued(t) ==
    \/ SendLock(t) \/ SendCheckClosed(t) \/ SendDropMessagePeer(t) \/ SendAddNetwork(t)
    \/ SendLoadConn(t) \/ SendDropMessage(t) \/ SendEnqueue(t) \/ SendAddPeer(t)

NextRegistry ==
    \/ \E p \in Peers :
          \/ \E m \in remote \cap VersionMsgs : Start(p, m)
          \/ \E m \in IF connCloses[p] > 0 THEN {ReadError} ELSE remote \cap PeerListMsgs :
                 ReadMessages(p, m)
          \/ ReadReturn(p)
          \/ close(p)
    \/ \E t \in PeerTasks :
          \/ handle(t) \/ handleClosed(t) \/ version(t) \/ tryMarkConnected(t) \/ peerList(t)
          \/ SendQueued(t)

InitRegistry ==
    InitWith(Peers, {}, [p \in Peers |-> "n1"],
             {LegacyVersion(0), [op |-> "PeerList", ips |-> 1]}, SendQueueSize)
SpecRegistry == InitRegistry /\ [][NextRegistry]_vars

(* Shutdown: one connection to a legacy node with every goroutine Start    *)
(* spawns: the handler of the first message, the reader, the writer, the   *)
(* sender of GetPeerList and the two tickers. The node sends its Version   *)
(* and answers GetPeerList with one empty PeerList. Reads and writes fail  *)
(* on the closed connection, and at any time once the goroutines that run  *)
(* only during the handshake are gone.                                     *)
HandshakeOver(p) == hpc[FirstTask(p)] = "exit" /\ hpc[SpawnTask(p)] = "exit"

\* the tickers' periods are long: their first ticks come when Close has begun
TickerStep(t) ==
    \/ closePc[PeerOf(t)] # "idle" /\ sendPingsTick(t)
    \/ closePc[PeerOf(t)] # "idle" /\ requestFinishHandshakeTick(t)
    \/ tickerClosed(t) \/ tickerSent(t)

\* conn.Read on the closed connection returns an error
ReadClosed(p) == connCloses[p] > 0 /\ ReadMessages(p, ReadError)

ReaderShutdown(p) ==
    \/ \E m \in (IF ~gotPeerList[p] /\ hpc[SpawnTask(p)] = "exit"
                  THEN remote \cap PeerListMsgs ELSE {})
                 \cup (IF connCloses[p] > 0 \/ HandshakeOver(p) THEN {ReadError} ELSE {}) :
           ReadMessages(p, m)
    \/ ReadReturn(p)

\* a write on the closed connection returns an error
WriteClosed(p) == connCloses[p] > 0 /\ WriteSendRaw(p, FALSE)

WriterShutdown(p) ==
    \/ WriteRange(p) \/ WriteSubPeer(p) \/ WriteSubNetwork(p) \/ WriteReturn(p)
    \/ \E ok \in {connCloses[p] = 0, connCloses[p] = 0 /\ ~HandshakeOver(p)} : WriteSendRaw(p, ok)

\* the handlers of a Version and of an empty PeerList; tryMarkConnected finds
\* at most the Peer itself in peers, with nobody holding stateLock
HandlerOpen(t) ==
    \/ handle(t) \/ version(t)
    \/ tryMarkConnectedCheck(t) \/ tryMarkConnectedOld(t) \/ tryMarkConnectedUnlock(t)
    \/ tryMarkConnectedSet(t) \/ tryMarkConnectedSession(t) \/ tryMarkConnectedStore(t)
    \/ SpawnedSend(t) \/ SpawnedReturn(t)

\* and the handler that finds the connection closed under it
HandlerShutdown(t) == HandlerOpen(t) \/ handleClosed(t)

NextShutdown ==
    \/ \E p \in Peers :
          \/ \E m \in remote \cap VersionMsgs : Start(p, m)
          \/ close(p) \/ ReaderShutdown(p) \/ WriterShutdown(p)
    \/ \E t \in PeerTasks : HandlerShutdown(t) \/ Send(t) \/ TickerStep(t)

InitShutdown ==
    InitWith({1}, {}, [p \in Peers |-> "n1"], {LegacyVersion(0), [op |-> "PeerList", ips |-> 0]},
             1)

(* The Go scheduler runs every runnable goroutine: each goroutine that can *)
(* take a step of its own takes one. Nothing obliges the network to fail   *)
(* or a ticker to tick: a read and a write are only sure to return on the  *)
(* closed connection, and a ticker goroutine is only sure to leave its     *)
(* select when tickerCloser is closed.                                     *)
FairShutdown ==
    \A p \in {1} :
        /\ WF_vars(close(p))
        /\ WF_vars(ReadClosed(p) \/ ReadReturn(p))
        /\ WF_vars(WriteRange(p) \/ WriteSubPeer(p) \/ WriteSubNetwork(p) \/ WriteReturn(p)
                      \/ WriteClosed(p))
        /\ \A t \in {ReaderTask(p), FirstTask(p), SpawnTask(p)} :
               WF_vars(HandlerShutdown(t) \/ Send(t))
        /\ \A t \in {PingTask(p), FinishTask(p)} :
               WF_vars(Send(t) \/ tickerClosed(t) \/ tickerSent(t))

SpecShutdown == InitShutdown /\ [][NextShutdown]_vars /\ FairShutdown

(* Reconnect: a node connects, and connects again when the handshake of    *)
(* its first connection is over (the first connection may be open, closing *)
(* or closed by then). The first connection is a legacy one with session   *)
(* id 0; the second is legacy or modern, with session id 0 or the highest  *)
(* id. Frames stay queued: the writers do not run.                         *)
MaxSessionID == SessionMod - 1

Settled(p) == HandshakeOver(p) /\ hpc[ReaderTask(p)] \in {"r_read", "exit"}

StartReconnect(p) ==
    \/ p = 1 /\ Start(p, LegacyVersion(0))
    \/ p # 1 /\ Settled(1) /\ \E m \in remote \cap VersionMsgs : Start(p, m)
    \/ \E nak \in {"Success"} : processVersionNak(p, nak)
    \/ processVersionNakGotVersion(p) \/ processVersionNakGotPeerList(p)
    \/ processVersionNakConnected(p) \/ processVersionNakSpawn(p)

NextReconnect ==
    \/ \E p \in Peers : StartReconnect(p) \/ close(p) \/ ReaderShutdown(p)
    \/ \E t \in PeerTasks : HandlerOpen(t) \/ SendQueued(t)

InitReconnect ==
    InitWith(Peers, {}, [p \in Peers |-> "n1"],
             {LegacyVersion(0), LegacyVersion(MaxSessionID), ModernVersion(0),
              [op |-> "PeerList", ips |-> 0]},
             SendQueueSize)
SpecReconnect == InitReconnect /\ [][NextReconnect]_vars

(* Order: two outside tasks call Send on one Peer, each with frames of its  *)
(* own length, while the writer runs; the frames of the Sends that return  *)
(* true and the frames written are logged. A write may fail.               *)
\* Sends that return true before the callers stop
MaxFrames == 3

CallerOrder ==
    \E t \in Callers, p \in Peers :
        Len(wire.sent[p]) < MaxFrames /\ t[2] \in MsgLens /\ CallSend(t, p, t[2])

NextOrder ==
    \/ \E p \in Peers : StartStep(p) \/ close(p) \/ WriteMessages(p)
    \/ \E t \in Callers : Send(t)
    \/ CallerOrder

InitOrder == InitAll({1}, Callers, [p \in Peers |-> "n1"], {ModernVersion(0)}, SendQueueSize, TRUE,
                     <<>>, NoPair)
SpecOrder == InitOrder /\ [][NextOrder]_vars

(* Framing: the reader of one connection and the bytes of one, two or      *)
(* three frames, whose payloads are as long as maxMessageSize allows or    *)
(* one byte longer, delivered in chunks of any sizes.                      *)
\* the frames of a byte stream
MaxFramesRead == 3
\* p.net.readBufferSize: the most bytes one conn.Read delivers
ReadBufferSize == 12

\* the payloads of frames of the given lengths: frame i is filled with byte i
Payloads(lens) == [i \in 1..Len(lens) |-> [j \in 1..lens[i] |-> i]]

FrameSeqs ==
    {Payloads(lens) : lens \in UNION {[1..k -> 1..(maxMessageSize + 1)] : k \in 1..MaxFramesRead}}

NextFraming ==
    \E p \in Peers : (\E n \in 1..ReadBufferSize : ReadFrames(p, n)) \/ ReadFramesError(p)
                         \/ close(p)

InitFraming ==
    \E frames \in FrameSeqs :
        InitAll({1}, {}, [p \in Peers |-> "n1"], {}, SendQueueSize, FALSE, frames, NoPair)
SpecFraming == InitFraming /\ [][NextFraming]_vars

(* Pair: Start at both ends of a connection between two nodes that both   *)
(* take the Version/VersionNak exchange, or of a connection of a node to   *)
(* itself; a node may advertise a version string that does not parse.      *)
NextPair == \E e \in Ends : verionAckSend(e) \/ verionAckRead(e) \/ versionNackSend(e)
                              \/ versionNackRead(e)

Pairs ==
    {[nodeID |-> ids, peered |-> pd, ver |-> vs, pc |-> <<"start", "start">>,
      inbox |-> <<<<>>, <<>>>>, nak |-> <<"none", "none">>] :
         ids \in {<<"n1", "n2">>, <<"n1", "n1">>},
         pd \in {<<a, b>> : a, b \in BOOLEAN},
         vs \in {<<a, b>> : a, b \in {"modern", "junk"}}}

InitPair ==
    \E pair \in Pairs :
        InitAll({}, {}, [p \in Peers |-> "n1"], {}, SendQueueSize, FALSE, <<>>, pair)
SpecPair == InitPair /\ [][NextPair]_vars

(* Self: connections of the node to itself. Both Peers have the id of the  *)
(* node and Start reads whatever the remote sends; the two ends of one     *)
(* such connection exchange Version and VersionNak.                        *)
NextSelf ==
    \/ \E p \in Peers :
           \/ \E m \in (remote \cap StartInputs) \cup {ReadError} : Start(p, m)
           \/ \E nak \in NakReplies : processVersionNak(p, nak)
           \/ close(p)
    \/ NextPair

InitSelf ==
    \E pair \in {q \in Pairs : q.nodeID[1] = q.nodeID[2]} :
        InitAll(Peers, {}, [p \in Peers |-> MyID],
                {ModernVersion(0), LegacyVersion(0), ForeignVersion,
                 [op |-> "PeerList", ips |-> 1], [op |-> "Other"]},
                SendQueueSize, FALSE, <<>>, pair)
SpecSelf == InitSelf /\ [][NextSelf]_vars

(* Foreign: one connection to a node of another network: every Version the *)
(* remote sends carries the other networkID.                               *)
ForeignModern == [ModernVersion(0) EXCEPT !.networkID = "other"]

\* as NextHandshake, without the steps no such connection reaches: the Version
\* handler past its checks, tryMarkConnected past its test, a full queue
NextForeign ==
    \/ \E p \in Peers : StartStep(p) \/ close(p) \/ ReaderStep(p)
    \/ \E t \in PeerTasks :
           \/ handle(t) \/ handleClosed(t) \/ discardClearIP(t) \/ tryMarkConnectedCheck(t)
           \/ peerList(t) \/ Version(t) \/ SendQueued(t)

InitForeign ==
    InitWith({1}, {}, [p \in Peers |-> "n1"],
             {ForeignModern, ForeignVersion, [op |-> "PeerList", ips |-> 1], [op |-> "Other"]},
             SendQueueSize)
SpecForeign == InitForeign /\ [][NextForeign]_vars

(* Skew: as Reconnect, with a legacy node whose clock is off: after its     *)
(* PeerList, and before the Version of the handshake is accepted, a        *)
(* connection delivers a Version whose time is out of range.               *)
SkewedVersion == [LegacyVersion(0) EXCEPT !.skew = ClockSkew]

ReaderSkew(p) ==
    \/ ReaderShutdown(p)
    \/ ~gotVersion[p] /\ gotPeerList[p] /\ connCloses[p] = 0 /\ ReadMessages(p, SkewedVersion)

NextSkew ==
    \/ \E p \in Peers :
           \/ p = 1 /\ Start(p, LegacyVersion(0))
           \/ p # 1 /\ Settled(1) /\ Start(p, LegacyVersion(0))
           \/ close(p) \/ ReaderSkew(p)
    \/ \E t \in PeerTasks : HandlerShutdown(t) \/ discardIP(t) \/ SendQueued(t)

InitSkew ==
    InitWith(Peers, {}, [p \in Peers |-> "n1"],
             {LegacyVersion(0), SkewedVersion, [op |-> "PeerList", ips |-> 0]}, SendQueueSize)
SpecSkew == InitSkew /\ [][NextSkew]_vars

(* Revert: two outside tasks call Send on two Peers whose writers do not    *)
(* run, so that queues fill up; the frames of the Sends that return true   *)
(* are logged. Close may come at any time.                                 *)
NextRevert ==
    \/ \E p \in Peers : StartStep(p) \/ close(p)
    \/ \E t \in Callers : Send(t)
    \/ CallerStep

InitRevert == InitAll(Peers, Callers, [p \in Peers |-> IF p = 1 THEN "n1" ELSE "n2"],
                      {ModernVersion(0)}, SendQueueSize, TRUE, <<>>, NoPair)
SpecRevert == InitRevert /\ [][NextRevert]_vars

(* Compat: a node that is no beacon connects twice, as in Skew; after its  *)
(* PeerList, and before the Version of the handshake is accepted, a        *)
(* connection delivers a Version that fails the Compatible check.          *)
IncompatibleVersion == [LegacyVersion(0) EXCEPT !.versionStr = "incompatible"]

ReaderCompat(p) ==
    \/ ReaderShutdown(p)
    \/ ~gotVersion[p] /\ gotPeerList[p] /\ connCloses[p] = 0 /\ ReadMessages(p, IncompatibleVersion)

NextCompat ==
    \/ \E p \in Peers :
           \/ p = 1 /\ Start(p, LegacyVersion(0))
           \/ p # 1 /\ Settled(1) /\ Start(p, LegacyVersion(0))
           \/ close(p) \/ ReaderCompat(p)
    \/ \E t \in PeerTasks : HandlerShutdown(t) \/ discardIP(t) \/ SendQueued(t)

InitCompat ==
    InitWith(Peers, {}, [p \in Peers |-> "n1"],
             {LegacyVersion(0), IncompatibleVersion, [op |-> "PeerList", ips |-> 0]}, SendQueueSize)
SpecCompat == InitCompat /\ [][NextCompat]_vars

(* Route: one connection to a node that takes the Version/VersionNak path  *)
(* or is a legacy node; the reader is given messages for the Router at any *)
(* time, besides the node's Version and PeerList. No writer runs.          *)
RouteMsgs == {[op |-> "Chits"], [op |-> "Put"]}

NextRoute ==
    \/ \E p \in Peers :
          \/ \E m \in remote \cap VersionMsgs : Start(p, m)
          \/ processVersionNak(p, "Success")
          \/ processVersionNakGotVersion(p) \/ processVersionNakGotPeerList(p)
          \/ processVersionNakConnected(p) \/ processVersionNakSpawn(p)
          \/ \E m \in (remote \cap (PeerListMsgs \cup ConsensusMsgs)) \cup {ReadError} :
                 ReadMessages(p, m)
          \/ ReadReturn(p) \/ close(p)
    \/ \E t \in PeerTasks :
          \/ handle(t) \/ handleClosed(t) \/ handleConsensus(t) \/ version(t)
          \/ tryMarkConnectedCheck(t) \/ tryMarkConnectedOld(t)
          \/ tryMarkConnectedSet(t) \/ tryMarkConnectedSession(t) \/ tryMarkConnectedStore(t)
          \/ SpawnedSend(t) \/ SpawnedReturn(t) \/ SendQueued(t)

InitRoute ==
    InitWith({1}, {}, [p \in Peers |-> "n1"],
             {ModernVersion(0), LegacyVersion(0), [op |-> "PeerList", ips |-> 0]} \cup RouteMsgs,
             SendQueueSize)
SpecRoute == InitRoute /\ [][NextRoute]_vars

(* Tick: one connection to a legacy node whose handshake-completion ticker *)
(* ticks at any time: before the node's Version or PeerList was handled,   *)
(* after the handshake and after Close. No writer runs and the goroutine   *)
(* of p.Version() is not scheduled.                                        *)
NextTick ==
    \/ \E p \in Peers :
          \/ \E m \in remote \cap PeerListMsgs : Start(p, m)
          \/ close(p) \/ ReaderStep(p)
    \/ \E t \in PeerTasks :
          \/ handle(t) \/ handleClosed(t) \/ version(t)
          \/ tryMarkConnectedCheck(t) \/ tryMarkConnectedOld(t) \/ tryMarkConnectedUnlock(t)
          \/ tryMarkConnectedSet(t) \/ tryMarkConnectedSession(t) \/ tryMarkConnectedStore(t)
          \/ Send(t) \/ requestFinishHandshake(t)

InitTick ==
    InitWith({1}, {}, [p \in Peers |-> "n1"], {LegacyVersion(0), [op |-> "PeerList", ips |-> 0]},
             SendQueueSize)
SpecTick == InitTick /\ [][NextTick]_vars

(* Codec: one message of any op, with fields drawn from small sets, is     *)
(* built and its bytes are parsed.                                         *)
ByteVals == {0, ByteMod - 1}
\* the greatest integer of the model checker, below the greatest uint32
MaxUint == ByteMod * ByteMod * ByteMod * (ByteMod \div 2 - 1) + (ByteMod * ByteMod * ByteMod - 1)
RECURSIVE BytesOf(_)
\* the byte sequences of length n
BytesOf(n) == IF n = 0 THEN {<<>>} ELSE {Append(b, x) : b \in BytesOf(n - 1), x \in ByteVals}
RECURSIVE UpTo(_, _)
\* the sequences of at most n elements of S
UpTo(S, n) == IF n = 0 THEN {<<>>} ELSE UpTo(S, n - 1) \cup {Append(l, x) : l \in UpTo(S, n - 1), x \in S}

\* the values a field of type ty takes here
ValuesOf(ty) ==
    CASE ty = "u32" -> {0, 1, MaxUint}
      [] ty = "u64" -> {0, MaxUint}
      [] ty = "str" -> UpTo(ByteVals, MaxList)
      [] ty = "bytes" -> UpTo(ByteVals, MaxList)
      [] ty = "id" -> BytesOf(IDLen)
      [] ty = "ip" -> [ip : BytesOf(IPLen), port : {0, ByteMod * ByteMod - 1}]
      [] ty = "ips" -> UpTo([ip : BytesOf(IPLen), port : {0, ByteMod * ByteMod - 1}], MaxList)
      [] ty = "ids" -> UpTo(BytesOf(IDLen), MaxList)
      [] ty = "blobs" -> UpTo(UpTo(ByteVals, MaxList), MaxList)

RECURSIVE FieldsOf(_)
FieldsOf(schema) ==
    IF schema = <<>> THEN {<<>>}
    ELSE {<<v>> \o f : v \in ValuesOf(Head(schema)[2]), f \in FieldsOf(Tail(schema))}

Msgs == UNION {[op : {OpList[i]}, fields : FieldsOf(Schema(OpList[i]))] : i \in 1..Len(OpList)}

NextCodec == BuildMsg \/ ParseBytes

InitCodec ==
    /\ InitState({}, {}, [p \in Peers |-> "n1"], {}, SendQueueSize, FALSE, <<>>, NoPair)
    /\ \E m \in Msgs : codec = [NoCodec EXCEPT !.pc = "msg", !.msg = m]
    /\ avmTx = NoTx
    /\ vtxJob = NoJob
SpecCodec == InitCodec /\ [][NextCodec]_vars

\* most inputs and most outputs of a transaction
MaxUTXOs == 2

\* a Tx whose t.status is Unknown (not loaded) or the status of the database
TxInputs ==
    {x \in [pc : {"call"}, status : Statuses, stored : Statuses \cup {"none"}, pending : {{}},
            inputs : 0..MaxUTXOs, utxos : 0..MaxUTXOs, before : Statuses, ret : {"none"}] :
        /\ x.status \in {"Unknown", x.stored}
        /\ x.before = TxStatus(x)}

NextAccept ==
    \/ Accept \/ AcceptSpendUTXO \/ AcceptFundUTXO \/ AcceptSetStatus
    \/ AcceptCommitBatch \/ AcceptExecute

InitAccept ==
    /\ InitState({}, {}, [p \in Peers |-> "n1"], {}, SendQueueSize, FALSE, <<>>, NoPair)
    /\ codec = NoCodec
    /\ vtxJob = NoJob
    /\ avmTx \in TxInputs
SpecAccept == InitAccept /\ [][NextAccept]_vars

\* most parents and most transactions of a vertex
MaxParents == 2
MaxTxs == 2

\* what GetVertex gives for a parent
ParentStates == {"missing", "Processing", "Accepted"}
\* what each of pinnedTxs, txCache and the VM holds for a transaction id
TxStates == {"none", "Processing", "Accepted"}
Lookups == [pinned : TxStates, cached : TxStates, stored : TxStates]

NextExecute ==
    \/ Execute \/ ExecuteTxs \/ ExecuteGetTx \/ ExecuteStatus \/ ExecuteAccept
    \/ ExecuteSaveVertex

InitExecute ==
    /\ InitState({}, {}, [p \in Peers |-> "n1"], {}, SendQueueSize, FALSE, <<>>, NoPair)
    /\ codec = NoCodec
    /\ avmTx = NoTx
    /\ \E ps \in UpTo(ParentStates, MaxParents), ts \in UpTo(Lookups, MaxTxs), s \in Statuses :
          vtxJob = [NoJob EXCEPT !.pc = "call", !.parents = ps, !.txs = ts, !.status = s, !.before = s]
SpecExecute == InitExecute /\ [][NextExecute]_vars

(***************************** the properties ******************************)
RECURSIVE SumOver(_, _)
SumOver(S, f) == IF S = {} THEN 0
                 ELSE LET x == CHOOSE y \in S : TRUE IN f[x] + SumOver(S \ {x}, f)

\* C1: no frame is enqueued onto a closed sender channel. A Send between its
\* test of closed and its enqueue holds senderLock and the channel is open;
\* close() has set closed when it holds senderLock.
C1_NoSendOnClosed ==
    /\ crashed # "send on closed channel"
    /\ \A t \in Tasks :
          sf[t].pc \in {"s_dropPeer", "s_add", "s_load", "s_drop", "s_enq"}
              => senderLock[sf[t].to] = t /\ senderCloses[sf[t].to] = 0
    /\ \A p \in Peers : senderLock[p] = CloseTask(p) => closed[p]

\* C1 witness: a Send that saw closed = false is about to enqueue while
\* close() has set closed and waits for senderLock
C1_Witness ==
    \E t \in Tasks : /\ sf[t].pc = "s_enq"
                     /\ closePc[sf[t].to] = "c_lock"
                     /\ closed[sf[t].to]

\* C2: once Close has returned on a Peer, every step of a Send on that Peer
\* leaves the sender queue and both pendingBytes counters as they are, does
\* not panic, and the Send returns false.
C2_SendAfterClose ==
    [][\A t \in Tasks :
          (sf[t].pc # "idle" /\ sf'[t] # sf[t] /\ closePc[sf[t].to] = "done")
              => /\ sender' = sender
                 /\ pendingBytes' = pendingBytes
                 /\ netPendingBytes' = netPendingBytes
                 /\ crashed' = crashed
                 /\ sf'[t].pc \in {"s_closed", "idle"}
                 /\ sf'[t].pc = "idle" => sf'[t].ret = "false"]_vars

\* C2 witness: a Send holds senderLock of a Peer whose Close has returned and
\* whose queue still holds frames
C2_Witness ==
    \E t \in Tasks : /\ sf[t].pc = "s_closed"
                     /\ closePc[sf[t].to] = "done"
                     /\ sender[sf[t].to] # <<>>
                     /\ pendingBytes[sf[t].to] > 0

\* C3: once a Peer is closed and its writer task has exited, the Peer's
\* pendingBytes is 0 (no leak of the bytes of frames still queued).
C3_NoLeak ==
    \A p \in Peers : (closePc[p] = "done" /\ wpc[p] = "w_exit") => pendingBytes[p] = 0

\* C4 as stated: in every reachable state a Peer's pendingBytes equals the
\* sum of the lengths of the frames in its sender queue.
C4_PendingIsQueued == \A p \in Peers : pendingBytes[p] = SumSeq(sender[p])

\* C4 amended: pendingBytes equals the sum of the lengths of the queued
\* frames, plus the frame the writer received and has not subtracted yet,
\* minus the frame a Send enqueued and has not added yet.
C4_PendingAccounted ==
    \A p \in Peers :
       LET received == IF wpc[p] = "w_decPeer" THEN wmsg[p] ELSE 0
           holder == senderLock[p]
           enqueued == IF holder \in Tasks /\ sf[holder].pc = "s_addPeer"
                       THEN sf[holder].len ELSE 0
       IN pendingBytes[p] = SumSeq(sender[p]) + received - enqueued

\* C4 witness: a Send has enqueued a frame and not yet added its length while
\* the writer has received a frame and not yet subtracted its length
C4_Witness ==
    \E p \in Peers : /\ wpc[p] = "w_decPeer"
                     /\ senderLock[p] \in Tasks
                     /\ sf[senderLock[p]].pc = "s_addPeer"

\* C5 as stated: in every reachable state the pendingBytes of the Network
\* equals the sum of the pendingBytes of its Peers.
C5_NetworkIsSum == netPendingBytes = SumOver(Peers, pendingBytes)

\* C5 amended: the pendingBytes of the Network equals the sum of the
\* pendingBytes of its Peers, plus the lengths Sends added to it and have
\* neither added to their Peer nor taken back yet, plus the lengths writers
\* subtracted from their Peer and not yet from the Network.
C5_NetworkAccounted ==
    LET share == [p \in Peers |->
                    LET holder == senderLock[p]
                        added == IF /\ holder \in Tasks
                                    /\ sf[holder].pc \in {"s_load", "s_drop", "s_enq",
                                                          "s_revert", "s_addPeer"}
                                 THEN sf[holder].len ELSE 0
                        owed == IF wpc[p] = "w_decNet" THEN wmsg[p] ELSE 0
                    IN pendingBytes[p] + added + owed]
    IN netPendingBytes = SumOver(Peers, share)

\* C5 witness: a Send on one Peer is before its enqueue with its length
\* already in the Network counter, while the writer of another Peer is
\* between its two subtractions
C5_Witness ==
    \E p, q \in Peers : /\ p # q
                        /\ senderLock[p] \in Tasks
                        /\ sf[senderLock[p]].pc = "s_enq"
                        /\ wpc[q] = "w_decNet"

\* C6 as stated: connected implies gotVersion, gotPeerList and not closed.
C6_ConnectedNotClosed ==
    \A p \in Peers : connected[p] => gotVersion[p] /\ gotPeerList[p] /\ ~closed[p]

\* C6 amended: connected implies gotVersion and gotPeerList (close() leaves
\* connected set).
C6_ConnectedHandshaken ==
    \A p \in Peers : connected[p] => gotVersion[p] /\ gotPeerList[p]

\* C6 witness: a Peer that became connected, told the Network, and was closed
C6_Witness ==
    \E p \in Peers : /\ connected[p] /\ connectedCalls[p] > 0
                     /\ closed[p] /\ closePc[p] = "done"

\* C7: a Peer that is not closed, whose Start has returned and that is not
\* inside tryMarkConnected, is connected if and only if peers[id] is that Peer.
C7_ConnectedIffRegistered ==
    \A p \in live :
       (/\ ~closed[p] /\ closePc[p] = "idle"
        /\ stPc[p] = "running"
        /\ \A t \in PeerTasks :
              PeerOf(t) = p => hpc[t] \notin {"tmc_old", "tmc_unlock", "tmc_close",
                                              "tmc_connected", "tmc_session", "tmc_store"})
           => (connected[p] <=> peers[id[p]] = p)

\* C8: of two Peers of one id that both became connected and told the
\* Network, at least one is closed.
C8_OneConnectedPerID ==
    \A p, q \in live :
       (/\ p # q /\ id[p] = id[q]
        /\ connected[p] /\ connectedCalls[p] > 0
        /\ connected[q] /\ connectedCalls[q] > 0)
           => closed[p] \/ closed[q]

\* C9: whatever tasks call Close, the connection, the sender channel and
\* tickerCloser are closed at most once and the disconnected hook runs at most
\* once, and when Close has returned each has happened exactly once.
C9_CloseOnce ==
    /\ crashed # "close of closed channel"
    /\ \A p \in Peers :
          /\ tickerCloses[p] <= 1 /\ connCloses[p] <= 1
          /\ senderCloses[p] <= 1 /\ disconnectedCalls[p] <= 1
          /\ closePc[p] = "done" => /\ tickerCloses[p] = 1 /\ connCloses[p] = 1
                                    /\ senderCloses[p] = 1 /\ disconnectedCalls[p] = 1

\* C9 witness: the reader and the writer both called Close and both returned
C9_Witness ==
    \E p \in Peers : /\ wpc[p] = "w_exit"
                     /\ hpc[ReaderTask(p)] = "exit"
                     /\ disconnectedCalls[p] = 1

\* C10 as stated: closed implies that the connection, the sender channel and
\* tickerCloser are closed.
C10_ClosedAllClosed ==
    \A p \in Peers :
       closed[p] => connCloses[p] > 0 /\ senderCloses[p] > 0 /\ tickerCloses[p] > 0

\* C10 amended: closed implies that tickerCloser is closed; the sender channel
\* is closed only after the connection, which is closed only after closed is
\* set; and when Close has returned all three are closed.
C10_ClosedInOrder ==
    \A p \in Peers :
       /\ closed[p] => tickerCloses[p] > 0
       /\ connCloses[p] > 0 => closed[p]
       /\ senderCloses[p] > 0 => connCloses[p] > 0
       /\ closePc[p] = "done" => closed[p] /\ senderCloses[p] > 0

\* C10 witness: closed is set and the connection is still open
C10_Witness ==
    \E p \in Peers : closed[p] /\ tickerCloses[p] > 0 /\ connCloses[p] = 0

\* every goroutine of Peer p has returned, and so has Close
Terminated(p) ==
    /\ closePc[p] = "done"
    /\ wpc[p] \in {"w_off", "w_exit"}
    /\ \A t \in PeerTasks : PeerOf(t) = p => hpc[t] \in {"off", "exit"} /\ sf[t].pc = "idle"

C12_SessionArbitration ==
    [][\A t \in PeerTasks :
          LET p == PeerOf(t)
              q == peers[id[p]]
          IN  /\ (hpc[t] = "v_look" /\ hpc'[t] # "v_look" /\ q \notin {NoPeer, p})
                     => (hpc'[t] = "dip") =
                            ~(hmsg[t].sessionID = 0 \/ hmsg[t].sessionID >= nextSessionID[id[p]])
              /\ (hpc[t] = "tmc_unlock" /\ hpc'[t] # "tmc_unlock" /\ hold[t] # p)
                     => crashed' = "no" /\ closePc'[hold[t]] # "idle"
              /\ (hpc[t] = "tmc_store" /\ hpc'[t] # "tmc_store") => peers'[id[p]] = p]_vars

\* C13: for every peer id, nextSessionID[id] never decreases, whatever the
\* connections and their session ids are, the highest id included.
C13_SessionNeverDecreases ==
    [][\A i \in IDs : nextSessionID'[i] >= nextSessionID[i]]_vars

\* the frames enqueued for Peer p by Sends that have not returned yet
Enqueued(p) ==
    LET T == {t \in Tasks : sf[t].pc = "s_addPeer" /\ sf[t].to = p}
    IN  IF T = {} THEN <<>> ELSE <<sf[CHOOSE t \in T : TRUE].len>>

\* the frame the writer of Peer p has received and not yet written
InHand(p) == IF wpc[p] \in {"w_decPeer", "w_decNet", "w_sendRaw"} THEN <<wmsg[p]>> ELSE <<>>

IsPrefix(a, b) == Len(a) <= Len(b) /\ a = SubSeq(b, 1, Len(a))

\* C14: the frames of one Peer are written to the connection in the order
\* in which their Sends returned true: what was written is a prefix of the
\* frames of the Sends in the order of their success, and while the writer
\* runs the frames written, in hand and queued are exactly those frames.
C14_WrittenInSendOrder ==
    \A p \in Peers :
        /\ Cardinality({t \in Tasks : sf[t].pc = "s_addPeer" /\ sf[t].to = p}) <= 1
        /\ IsPrefix(wire.written[p], wire.sent[p] \o Enqueued(p))
        /\ wpc[p] \in {"w_range", "w_decPeer", "w_decNet", "w_sendRaw"}
               => wire.written[p] \o InHand(p) \o sender[p] = wire.sent[p] \o Enqueued(p)

\* C14 witness: three frames of two senders were written, not all alike,
\* the last of them before its Send returned
C14_Witness ==
    \E p \in Peers :
        /\ Len(wire.written[p]) = MaxFrames
        /\ \E i, j \in 1..MaxFrames : wire.written[p][i] # wire.written[p][j]
        /\ Len(wire.sent[p]) < MaxFrames

\* the goroutines of Peer p that are inside peer.handle
Handling(p) ==
    {t \in {ReaderTask(p), FirstTask(p)} : hpc[t] \notin {"off", "r_read", "x_close", "exit"}}

\* C15: inbound handling of one Peer is serialized: never are two inbound
\* messages of the Peer being handled at once, and every write of
\* gotVersion, gotPeerList and connected is a step of the reader task, also
\* for the first message, which Start receives.
C15_InboundSerialized ==
    [][\A p \in Peers :
          /\ Cardinality(Handling(p)) <= 1
          /\ (gotVersion'[p] # gotVersion[p] \/ gotPeerList'[p] # gotPeerList[p]
                  \/ connected'[p] # connected[p])
                 => hpc'[ReaderTask(p)] # hpc[ReaderTask(p)]]_vars

\* every frame of the stream has a payload of at most maxMessageSize bytes
ValidFrames == \A i \in 1..Len(rd.frames) : Len(rd.frames[i]) <= maxMessageSize

\* C16: for valid frames and any partition of their bytes into reads, the
\* reader dispatches the frames in order, each once, and when all bytes
\* have been read (the reader waits in conn.Read and nothing more arrives)
\* every frame has been dispatched.
C16_FramesDispatched ==
    (ValidFrames /\ rd.pc = "read")
        => /\ IsPrefix(rd.out, rd.frames)
           /\ rd.stream = <<>> => rd.out = rd.frames

\* C17: a frame header that declares more than maxMessageSize bytes makes
\* the reader close the Peer at once: the reader never goes back to
\* conn.Read with such a header at the front of pendingBuffer (to wait for
\* and buffer the payload), it never dispatches such a frame, and the
\* Network's pendingBytes stays as it is.
C17_OversizeClosesAtOnce ==
    /\ (rd.pc = "read" /\ Len(rd.buf) >= IntLen)
           => UnpackInt(SubSeq(rd.buf, 1, IntLen)) <= maxMessageSize
    /\ \A i \in 1..Len(rd.out) : Len(rd.out[i]) <= maxMessageSize
    /\ netPendingBytes = 0

\* Start has returned at end e
Returned(e) == hs.pc[e] = "connected" \/ hs.pc[e] \in StartErrors

\* C18: when both nodes take the Version/VersionNak exchange over a
\* reliable connection, both ends end connected or both Starts fail, never
\* exactly one; when the ids differ, neither node has the other in peers
\* and both version strings parse, both ends end connected; and no Start
\* waits for ever.
C18_HandshakeSymmetric ==
    /\ (Returned(1) /\ Returned(2)) => (hs.pc[1] = "connected") = (hs.pc[2] = "connected")
    /\ (hs.nodeID[1] # hs.nodeID[2] /\ ~hs.peered[1] /\ ~hs.peered[2]
           /\ hs.ver = <<"modern", "modern">>)
           => \A e \in Ends : hs.pc[e] \notin StartErrors
    /\ (Returned(1) /\ Returned(2)) \/ ENABLED NextPair

\* C18 witness: both ends are connected
C18_Witness == hs.pc = <<"connected", "connected">>

\* C19: a Peer whose id is the node's own id never becomes connected, is
\* never stored in peers and starts no goroutine, whatever Start reads; on
\* the Version/VersionNak path the errorNo handed to versionNack is
\* SelfPeered and Start returns errPeerIsMyself.
C19_SelfNeverConnected ==
    /\ \A p \in Peers :
           id[p] = MyID =>
               /\ ~connected[p] /\ connectedCalls[p] = 0
               /\ \A i \in IDs : peers[i] # p
               /\ stPc[p] \in {"new", "pvn"} \cup StartErrors
               /\ sentNak[p] \in {"none", "SelfPeered"}
               /\ sentNak[p] = "SelfPeered" => stPc[p] = "errPeerIsMyself"
               /\ \A t \in {ReaderTask(p), FirstTask(p), SpawnTask(p), PingTask(p),
                             FinishTask(p)} : hpc[t] = "off"
    /\ \A e \in Ends :
           hs.nodeID[OtherEnd(e)] = hs.nodeID[e] =>
               /\ hs.pc[e] # "connected"
               /\ hs.pc[e] = "readNak" => hs.nak[e] = "SelfPeered"
               /\ hs.nak[e] # "none" /\ Returned(e) =>
                      hs.nak[e] = "SelfPeered" /\ hs.pc[e] = "errPeerIsMyself"

\* C19 witness: both paths have run: a Peer with the node's id failed in
\* processVersionNak, and an end of the connection of the node to itself
\* returned errPeerIsMyself after its VersionNak(SelfPeered) reached the
\* other end
C19_Witness ==
    /\ \E p \in Peers : id[p] = MyID /\ sentNak[p] = "SelfPeered" /\ closed[p]
    /\ hs.pc = <<"errPeerIsMyself", "errPeerIsMyself">>

\* C20: when processVersionNak runs for a Peer whose id has an entry in
\* peers, the errorNo it hands to versionNack is AlreadyPeered, Start
\* returns errAlreadyPeered, and peers, nextSessionID and the Peer's
\* gotVersion, gotPeerList and connected are as they were.
C20_AlreadyPeeredFails ==
    [][\A p \in Peers :
           (stPc[p] = "pvn" /\ stPc'[p] # "pvn" /\ isPeered(id[p])) =>
               /\ sentNak'[p] = "AlreadyPeered"
               /\ stPc'[p] = "errAlreadyPeered"
               /\ peers' = peers /\ nextSessionID' = nextSessionID
               /\ gotVersion'[p] = gotVersion[p] /\ gotPeerList'[p] = gotPeerList[p]
               /\ connected'[p] = connected[p]]_vars

\* C20 witness: Start of a second Peer of a registered id has returned
\* errAlreadyPeered, and the first Peer is still the one in peers
C20_Witness ==
    \E p \in Peers :
        /\ stPc[p] = "errAlreadyPeered" /\ sentNak[p] = "AlreadyPeered"
        /\ peers[id[p]] \notin {NoPeer, p}
        /\ ~gotVersion[p] /\ ~gotPeerList[p] /\ ~connected[p]

\* C21: a Peer whose remote sends only Versions of another network never
\* becomes connected and is never stored in peers, on the path of Start and
\* processVersionNak as on the path of the Version handler.
C21_ForeignNeverConnected ==
    \A p \in Peers : ~connected[p] /\ connectedCalls[p] = 0 /\ \A i \in IDs : peers[i] # p

\* the handler t is in discardIP for a Version whose time is out of range
DiscardsSkewed(t) ==
    /\ hmsg[t].op = "Version" /\ hmsg[t].verdict = "clock"
    /\ hpc[t] \in {"dip", "dip_lock", "dip_unlock"}

\* C22: the Version handler that finds the time of a Version out of range
\* clears the IP of the Peer and closes the Peer; its steps set neither
\* gotVersion nor connected and add no entry to peers.
C22_SkewDiscards ==
    [][\A t \in PeerTasks :
           (DiscardsSkewed(t) /\ hpc'[t] # hpc[t]) =>
               /\ gotVersion' = gotVersion /\ connected' = connected /\ peers' = peers
               /\ hpc[t] = "dip" => ~ip'[PeerOf(t)]
               /\ hpc'[t] \in {"dip_lock", "dip_unlock", "h_close"}
               /\ hpc'[t] = "h_close" => crashed' = "no" /\ closePc'[PeerOf(t)] # "idle"]_vars

\* the length a Send that has not returned yet has added to the counter of
\* the Network
Speculative(t) ==
    IF sf[t].pc \in {"s_load", "s_drop", "s_enq", "s_revert", "s_addPeer"} THEN sf[t].len ELSE 0

\* C23: Send never waits for room in the queue, and a Send that returns
\* false leaves nothing behind: with no writer running, the queue of a Peer
\* holds exactly the frames of the Sends that returned true (and of one
\* that is about to), the Peer's pendingBytes is the sum of the frames of
\* the Sends that returned true, and the Network's pendingBytes is the sum
\* over the Peers plus the lengths added by Sends that have not returned.
C23_FalseSendLeavesNothing ==
    /\ \A t \in Tasks : sf[t].pc = "s_enq" /\ crashed = "no" => ENABLED SendEnqueue(t)
    /\ \A p \in Peers :
           /\ sender[p] = wire.sent[p] \o Enqueued(p)
           /\ pendingBytes[p] = SumSeq(wire.sent[p])
    /\ netPendingBytes = SumOver(Peers, pendingBytes) + SumOver(Tasks, [t \in Tasks |-> Speculative(t)])

\* C23 witness: a Send has returned false on an open Peer whose queue is
\* full of frames that are too few bytes for the Peer to be refused
C23_Witness ==
    \E t \in Callers, p \in Peers :
        /\ sf[t].ret = "false" /\ ~closed[p] /\ closePc[p] = "idle"
        /\ Len(sender[p]) = sendQueueSize /\ pendingBytes[p] <= maxMessageSize
        /\ \A q \in Peers \ {p} : stPc[q] = "new"

\* C24: rate limiting is active only under global pressure: a Send that has
\* passed the test of closed, on a Peer that is not closed and whose queue
\* has a free slot, is not refused when the Network's pendingBytes with the
\* new message is at most networkPendingSendBytesToRateLimit, however many
\* bytes the Peer has pending.
C24_AdmittedBelowLimit ==
    [][\A t \in Tasks :
           LET p == sf[t].to IN
           (/\ sf[t].pc = "s_dropPeer" /\ sf'[t].pc # "s_dropPeer"
            /\ ~closed[p] /\ Len(sender[p]) < sendQueueSize
            /\ netPendingBytes + sf[t].len <= networkPendingSendBytesToRateLimit)
               => sf'[t].ret # "false"]_vars

\* the task t takes a step of tryMarkConnected past its test
MarksConnected(t) ==
    hpc[t] \in {"tmc_connected", "tmc_session", "tmc_store"} /\ hpc'[t] # hpc[t]

\* C25: tryMarkConnected is a no-op on a Peer that is closed or already
\* connected, also when Close runs concurrently: no step that sets
\* connected, updates nextSessionID, stores the Peer in peers or calls the
\* connected hook is taken on a closed Peer, connected is set only on a
\* Peer that is not connected, and the hook is called once at most.
C25_NoOpOnClosedOrConnected ==
    [][\A t \in PeerTasks :
           MarksConnected(t) =>
               /\ ~closed[PeerOf(t)]
               /\ hpc[t] = "tmc_connected" => ~connected[PeerOf(t)]
               /\ hpc[t] = "tmc_store" => connectedCalls[PeerOf(t)] = 0]_vars

AcquiresStateLock(x) ==
    \/ \E p \in Peers : x = CloseTask(p) /\ closePc[p] = "c_disc"
    \/ x \in PeerTasks /\ hpc[x] \in {"dip_lock", "v_lock", "tmc_close", "pl_lock", "sv_rlock"}

\* C27: a task that is at an acquisition of stateLock (in the disconnected
\* hook of close, discardIP, version, tryMarkConnected, peerList, Version)
\* holds the senderLock of no Peer. ipLock is taken and released inside
\* getIP and setIP, which are inside one step each, so it is never held at
\* such a position either.
C27_StateLockOutsidePeerLocks ==
    \A x \in PeerTasks \cup {CloseTask(p) : p \in Peers} :
        AcquiresStateLock(x) => \A p \in Peers : senderLock[p] # x

\* C27 witness: close() has released senderLock and is at the disconnected
\* hook while a Send of a handler holds the Peer's senderLock
C27_Witness ==
    \E p \in Peers : closePc[p] = "c_disc" /\ senderLock[p] \in PeerTasks

\* the handler t reads or writes peers or nextSessionID in this step
RegistryAccess(t) ==
    /\ hpc[t] \in {"v_look", "tmc_old", "tmc_session", "tmc_store"}
    /\ hpc'[t] # hpc[t]

\* C28: every step of a handler that reads or writes peers or
\* nextSessionID (the lookup of version, and the lookup, the session update
\* and the store of tryMarkConnected) is taken by the holder of stateLock.
C28_RegistryUnderStateLock ==
    [][\A t \in PeerTasks : RegistryAccess(t) => stateLock = t]_vars

\* the handler t leaves the position pc of tryMarkConnected in this step
Leaves(t, pc) == hpc[t] = pc /\ hpc'[t] # pc

\* C29: a tryMarkConnected that finds a registered Peer completes: the
\* release of stateLock around the Close of the old Peer is no fatal error,
\* the old Peer is closed when the lock is taken again, nextSessionID[id]
\* becomes max(nextSessionID[id], incomingSessionID) + 1, greater than the
\* accepted session id, and the connected Peer is stored as peers[id].
C29_ReactiveReconnectCompletes ==
    [][\A t \in PeerTasks :
          LET p == PeerOf(t) IN
          /\ Leaves(t, "tmc_unlock") => crashed' = "no"
          /\ Leaves(t, "tmc_close") => closed[hold[t]] /\ closePc[hold[t]] = "done"
          /\ Leaves(t, "tmc_session") =>
                 /\ nextSessionID'[id[p]] =
                        (IF incomingSessionID[p] > nextSessionID[id[p]]
                         THEN incomingSessionID[p] ELSE nextSessionID[id[p]]) + 1
                 /\ nextSessionID'[id[p]] > incomingSessionID[p]
          /\ Leaves(t, "tmc_store") => peers'[id[p]] = p /\ connected'[p]]_vars

\* the combined rule for the Send of t, with the message counted in the
\* bytes pending of the Network and of the Peer
CombinedDrop(t) ==
    LET p == sf[t].to IN
    /\ pendingBytes[p] > maxMessageSize
    /\ \/ netPendingBytes + sf[t].len > maxNetworkPendingSendBytes
       \/ pendingBytes[p] + sf[t].len > maxNetworkPendingSendBytes \div ConnShare

\* C30: a Send on an open Peer whose message takes the Network's
\* pendingBytes above networkPendingSendBytesToRateLimit is refused by the
\* byte tests exactly when the combined rule holds: with a free slot in the
\* queue it is refused at the test of the Peer's bytes exactly when the
\* rule holds, the second test
\* reverts exactly when the rule holds, and the revert subtracts the
\* message from the Network's pendingBytes and returns false.
C30_CombinedDropRule ==
    [][\A t \in Tasks :
          /\ (/\ sf[t].pc = "s_dropPeer" /\ sf'[t].pc # "s_dropPeer"
              /\ Len(sender[sf[t].to]) < sendQueueSize
              /\ netPendingBytes + sf[t].len > networkPendingSendBytesToRateLimit)
                 => (sf'[t].ret = "false" <=> CombinedDrop(t))
          /\ (/\ sf[t].pc = "s_drop" /\ sf'[t].pc # "s_drop"
              /\ sf[t].newPendingBytes > networkPendingSendBytesToRateLimit)
                 => (sf'[t].pc = "s_revert" <=>
                        /\ pendingBytes[sf[t].to] > maxMessageSize
                        /\ \/ sf[t].newPendingBytes > maxNetworkPendingSendBytes
                           \/ sf[t].newConnPendingBytes > maxNetworkPendingSendBytes \div ConnShare)
          /\ (sf[t].pc = "s_revert" /\ sf'[t].pc # "s_revert")
                 => sf'[t].ret = "false" /\ netPendingBytes' = netPendingBytes - sf[t].len]_vars

\* C31: the Version that Start sends to a peer carries the Network's
\* current nextSessionID of that peer as its SessionID.
C31_VersionCarriesSession ==
    [][\A e \in Ends :
          (hs.pc # <<>> /\ hs.pc[e] = "start" /\ hs'.pc[e] = "readVersion") =>
              LET sent == hs'.inbox[OtherEnd(e)] IN
              sent[Len(sent)].sessionID = nextSessionID[hs.nodeID[OtherEnd(e)]]]_vars

\* C32: the handshake ticker returns only at a tick that finds the Peer
\* connected or closed, or when tickerCloser is closed, and a tick that finds
\* the Peer connected or closed returns; every other tick sends GetVersion
\* exactly when gotVersion is not set and GetPeerList, after it, exactly
\* when gotPeerList is not set, and the ticker then waits for the next tick.
C32_TickerRequestsUntilDone ==
    [][\A p \in Peers :
          LET t == FinishTask(p)
              sendsGetVersion == hpc'[t] \in {"tk_sentVersion", "tk_sentVersionOnly"}
              sendsGetPeerList == hpc'[t] \in {"tk_sentVersion", "tk_sent"}
          IN
          /\ hpc[t] = "tk_select" =>
                 /\ hpc'[t] = "exit" => connected[p] \/ closed[p] \/ tickerCloses[p] > 0
                 /\ (hpc'[t] # "exit" /\ tickerCloses[p] = 0 /\ <<hpc[t], sf[t]>>' # <<hpc[t], sf[t]>>)
                        => /\ ~connected[p] /\ ~closed[p]
                           /\ sendsGetVersion <=> ~gotVersion[p]
                           /\ sendsGetPeerList <=> ~gotPeerList[p]
                           /\ sf'[t].pc = "s_lock"
                 /\ (connected[p] \/ closed[p]) => hpc'[t] \in {"tk_select", "exit"}
          /\ Leaves(t, "tk_sentVersion") => hpc'[t] = "tk_sent" /\ sf'[t].pc = "s_lock"
          /\ (Leaves(t, "tk_sent") \/ Leaves(t, "tk_sentVersionOnly")) => hpc'[t] = "tk_select"]_vars

\* C32 witness: the ticker is sending GetVersion alone, for a Peer that got
\* the PeerList and is still waiting for the Version
C32_Witness ==
    \E p \in Peers : /\ hpc[FinishTask(p)] = "tk_sentVersionOnly"
                      /\ gotPeerList[p] /\ ~gotVersion[p] /\ ~closed[p]

\* the handler t turns to the Version of a Peer that has no version yet and
\* whose connection is open; the Version is an incompatible one: for a Peer
\* that is no beacon that is the verdict, of a beacon every Version is
TurnsToIncompatible(t) ==
    /\ Leaves(t, "h_begin") /\ hmsg[t].op = "Version"
    /\ ~gotVersion[PeerOf(t)] /\ connCloses[PeerOf(t)] = 0
    /\ IF id[PeerOf(t)] \in Beacons
       THEN \A m \in remote : m.op = "Version" => m = IncompatibleVersion
       ELSE hmsg[t].verdict = "incompatible"

\* C33: a Version that fails the Compatible check makes the handler discard
\* a Peer that is no beacon: the IP is cleared, the Peer is closed and
\* gotVersion, connected and peers stay as they are; for a beacon the
\* handler goes on and sets gotVersion.
C33_IncompatibleDiscardsUnlessBeacon ==
    [][\A t \in PeerTasks :
          LET p == PeerOf(t) IN
          /\ TurnsToIncompatible(t) => hpc'[t] = (IF id[p] \in Beacons THEN "v_lock" ELSE "dip")
          /\ (hmsg[t].op = "Version" /\ id[p] \in Beacons /\ Leaves(t, "v_sent")) => gotVersion'[p]
          /\ (/\ hmsg[t].op = "Version" /\ hmsg[t].verdict = "incompatible"
              /\ hpc[t] \in {"dip", "dip_lock", "dip_unlock"} /\ hpc'[t] # hpc[t])
                 => /\ gotVersion' = gotVersion /\ connected' = connected /\ peers' = peers
                    /\ hpc[t] = "dip" => ~ip'[p]
                    /\ hpc'[t] \in {"dip_lock", "dip_unlock", "h_close"}
                    /\ hpc'[t] = "h_close" => crashed' = "no" /\ closePc'[p] # "idle"]_vars

\* C34: the pendingBytes of a Peer never exceed maxMessageSize plus the
\* length of the longest message passed to Send, whatever the Network's
\* counter and however many frames the queue holds.
C34_PeerPendingBounded ==
    \A p \in Peers : pendingBytes[p] <= maxMessageSize + MaxMsgLen

\* C34 witness: a Peer at the bound: it had maxMessageSize bytes pending
\* when a Send of the longest message was admitted
C34_Witness ==
    \E p \in Peers : pendingBytes[p] = maxMessageSize + MaxMsgLen

\* C35: a message of an op of the Router reaches the dispatch only in a
\* handler that found the Peer connected, and the Peer is connected at the
\* dispatch; a handler that finds the Peer not connected drops the message
\* and sends GetVersion if gotVersion is not set and then GetPeerList if
\* gotPeerList is not set.
C35_RoutedOnlyWhenConnected ==
    [][\A t \in PeerTasks :
          LET p == PeerOf(t) IN
          /\ (hpc'[t] \in {"h_peerVersion", "h_route"} \/ hpc[t] = "h_route") => connected[p]
          /\ (Leaves(t, "h_begin") /\ hmsg[t].op \in ConsensusOps /\ connCloses[p] = 0
                  /\ ~connected[p]) => hpc'[t] = "h_getVersion"
          /\ Leaves(t, "h_getVersion") =>
                 /\ sf'[t].pc = "s_lock" <=> ~gotVersion[p]
                 /\ hpc'[t] \in {"h_sentGetVersion", "h_getPeerList"}
          /\ Leaves(t, "h_sentGetVersion") => hpc'[t] = "h_getPeerList"
          /\ Leaves(t, "h_getPeerList") =>
                 /\ sf'[t].pc = "s_lock" <=> ~gotPeerList[p]
                 /\ hpc'[t] \in {"h_sentGetPeerList", HandlerDone(t)}
          /\ Leaves(t, "h_sentGetPeerList") => hpc'[t] = HandlerDone(t)]_vars

\* C35 witness: a message is at the dispatch to the Router: the Peer is
\* connected, and requests sent during its handshake are in its queue
C35_Witness ==
    \E t \in PeerTasks :
        /\ hpc[t] = "h_route" /\ hmsg[t].op \in ConsensusOps
        /\ connected[PeerOf(t)] /\ sender[PeerOf(t)] # <<>>

\* C36: a connected Peer has its versionStruct set, and no handler of a
\* connected Peer fails on a versionStruct that holds nothing.
C36_ConnectedHasVersionStruct ==
    /\ \A p \in Peers : connected[p] => versionStruct[p]
    /\ crashed # "interface conversion: interface is nil"

\* C37: under every interleaving of Send with the writer task, the
\* pendingBytes of every Peer and the pendingBytes of the Network are never
\* negative.
C37_PendingNeverNegative ==
    /\ \A p \in Peers : pendingBytes[p] >= 0
    /\ netPendingBytes >= 0

\* the handler t executes p.net.stateLock.Unlock() in this step (discardIP,
\* version, tryMarkConnected, peerList, Version)
ReleasesStateLock(t) ==
    /\ hpc[t] \in {"dip_unlock", "v_look", "tmc_unlock", "pl_track", "sv_unlock"}
    /\ hpc'[t] # hpc[t]

C39_AcceptAllOrNothing ==
    (avmTx.pc = "returned" /\ avmTx.ret # "nil") => TxStatus(avmTx) = avmTx.before

\* every parent of the vertex is Accepted
ParentsAccepted == MissingDependencies(vtxJob) = {}
\* every transaction of the vertex resolves through GetTx to an Accepted one
TxsAccepted == \A k \in 1..Len(vtxJob.txs) : GetTx(vtxJob.txs[k]) = "Accepted"

\* C40: Execute accepts and saves the vertex only if every parent is
\* Accepted, every transaction resolves through GetTx to an Accepted
\* transaction and the vertex was Processing. When the parents and the
\* transactions of the vertex could be read: with a missing or non-accepted
\* parent it returns an error; else with a non-accepted transaction it
\* returns nil without accepting; else on an Accepted vertex it returns nil
\* and changes nothing.
C40_ExecuteAcceptsOnlyReady ==
    /\ (vtxJob.accepted \/ vtxJob.saved) =>
           ParentsAccepted /\ TxsAccepted /\ vtxJob.before = "Processing"
    /\ (vtxJob.pc = "returned" /\ vtxJob.ret \notin {"Parents", "Txs"}) =>
           IF ~ParentsAccepted THEN vtxJob.ret = "blocked"
           ELSE IF ~TxsAccepted THEN vtxJob.ret = "nil" /\ ~vtxJob.accepted
           ELSE vtxJob.before = "Accepted" =>
                   /\ vtxJob.ret = "nil" /\ vtxJob.status = "Accepted"
                   /\ ~vtxJob.accepted /\ ~vtxJob.saved
                   /\ vtxJob.numDropped = 0 /\ vtxJob.numAccepted = 0

====
